---- MODULE Spec2Model ----
(***************************************************************************)
(* Model of src/ai-engine/quantum_workflow_engine.py: the workflow store   *)
(* of QuantumWorkflowEngine (create_quantum_workflow, collapse_workflow),  *)
(* the background learning tasks of PredictiveExecutionEngine and the      *)
(* WorkflowEvolutionTracker.                                               *)
(*                                                                         *)
(* Numbers: every float of the source in [0,1] is kept as an integer       *)
(* number of hundredths (0.95 is 95).  A variant score is kept as 30000    *)
(* times the float of the source (the division by 3 is not carried out),   *)
(* a fitness score as a reduced fraction num/den.  Time is counted in      *)
(* whole seconds: a timestamp is the second it was taken in.               *)
(***************************************************************************)
EXTENDS Integers, Sequences, FiniteSets, TLC

VARIABLES
    now,                \* time.time(), in whole seconds
    hashOf,             \* hash(description) of this process (string hashing is seeded per process)
    memory_network,     \* ConsciousnessEngine.memory_network
    active_workflows,   \* QuantumWorkflowEngine.active_workflows
    pending,            \* the learning tasks created and not yet finished
    temporal_patterns,  \* PredictiveExecutionEngine.temporal_patterns
    pattern_cache,      \* PredictiveExecutionEngine.pattern_cache
    prediction_models,  \* PredictiveExecutionEngine.prediction_models
    evolution_history,  \* WorkflowEvolutionTracker.evolution_history
    fitness_scores,     \* WorkflowEvolutionTracker.fitness_scores
    mutation_strategies,\* WorkflowEvolutionTracker.mutation_strategies
    ret,                \* what the last call returned or raised
    created,            \* how many times create_quantum_workflow was called
    simulation_environments, \* RealitySimulator.simulation_environments
    profiles,           \* the consciousness_profile dicts, by the serial number of the object
    active_connections, \* ConsciousnessInterfaceEngine.active_connections: the profile object of a connection id
    consciousness_profiles, \* ConsciousnessInterfaceEngine.consciousness_profiles: the profile object of a user id
    streams,            \* the monitoring and analysis tasks created and running
    thought_patterns,   \* ConsciousnessInterfaceEngine.thought_patterns
    feedback_log,       \* what _send_consciousness_feedback was called with, in order (line 476 prints it)
    analysis_pass       \* what the last pass of _precognitive_analysis found and did

engineVars == <<memory_network, active_workflows>>
learnVars == <<temporal_patterns, pattern_cache, prediction_models>>
trackerVars == <<evolution_history, fitness_scores, mutation_strategies>>
simVars == <<simulation_environments>>
mindVars == <<profiles, active_connections, consciousness_profiles, streams,
              thought_patterns, feedback_log, analysis_pass>>
vars == <<now, hashOf, memory_network, active_workflows, pending,
          temporal_patterns, pattern_cache, prediction_models,
          evolution_history, fitness_scores, mutation_strategies, ret, created,
          simulation_environments, profiles, active_connections, consciousness_profiles,
          streams, thought_patterns, feedback_log, analysis_pass>>

---------------------------------------------------------------------------
(* Bounds of the model *)

MaxTime == 1        \* the clock stops after this many seconds
MaxCreates == 2     \* create_quantum_workflow is called at most this many times
MaxOutcomes == 1    \* track_execution is called at most this many times
MaxTags == 3        \* a drawn variant carries at most this many characteristics
MaxHistory == 11    \* a long history holds at most this many outcomes
MaxRun == 3         \* a short history holds at most this many outcomes
MaxSims == 2        \* the simulator keeps at most this many environments
MaxConnections == 2 \* initialize_consciousness_connection is called at most this many times
MaxBeats == 3       \* a monitoring task makes at most this many iterations
MaxPasses == 1      \* the clock is moved to the next analysis pass at most this many times

(* Program constants *)

IdModulus == 10000
AnalysisInterval == 30
PatternWindow == 300
MinPatterns == 3
HistoryWindow == 10

---------------------------------------------------------------------------
(* Python dictionaries are functions; d.get(k, default) and d.update(e) *)

EmptyDict == [k \in {} |-> 0]

Get(d, k, default) == IF k \in DOMAIN d THEN d[k] ELSE default

Update(d, e) == e @@ d

Put(d, k, v) == (k :> v) @@ d

Contains(seq, x) == \E i \in 1..Len(seq) : seq[i] = x

Min(a, b) == IF a <= b THEN a ELSE b

WorkflowState == [SUPERPOSITION |-> "superposition", COLLAPSED |-> "collapsed",
                  ENTANGLED |-> "entangled", EVOLVING |-> "evolving",
                  CONSCIOUS |-> "conscious"]

---------------------------------------------------------------------------
(* Inputs.  A description is the sequence of its words: `w in description` *)
(* of the source is a substring test, here a test for the word.            *)

DescCustomer == <<"customer", "email", "Problem">>
DescBackup == <<"backup", "files">>
Descriptions == {DescCustomer, DescBackup}

HashValues == {7, 10008}

UserContexts == {[user_id |-> "user123"]}

CtxDefault == EmptyDict
CtxScenario == [urgency |-> 80, resources |-> 60, user_skill_level |-> 50,
                current_load |-> 40, error_tolerance |-> 10]
CtxCareful == [urgency |-> 0, resources |-> 0, error_tolerance |-> 0]
ExecutionContexts == {CtxDefault, CtxCareful}

\* every variant scores 0 unless the intent earns the bonus
CtxTie == [urgency |-> 0, resources |-> 0, error_tolerance |-> 100]
\* values no validation has seen: 1.5, -0.5 and 2.0
CtxOutOfRange == [urgency |-> 150, resources |-> -50, error_tolerance |-> 200]
CtxRushed == [urgency |-> 100, resources |-> 100, error_tolerance |-> 100]

ResultDefault == EmptyDict
ResultFailed == [duration |-> 9, success |-> FALSE, user_satisfaction |-> 20,
                 resource_usage |-> 30, errors |-> 2]
ExecutionResults == {ResultDefault, ResultFailed}

ResultPerfect == [success |-> TRUE, user_satisfaction |-> 100, resource_usage |-> 100]
ResultWorst == [success |-> FALSE, user_satisfaction |-> 0, resource_usage |-> 0]
\* values nothing has validated: 1.5 and 1.2
ResultOutOfRange == [user_satisfaction |-> 150, resource_usage |-> 120]
\* outcomes of fitness 0.7 and 0.45
ResultBorderline == [user_satisfaction |-> 100, resource_usage |-> 0]
ResultPoor == [success |-> FALSE, user_satisfaction |-> 75, resource_usage |-> 50]
\* three successful outcomes of satisfaction 0.9, 0.8, 0.85 and efficiency 0.7, 0.75, 0.8
ResultFirst == [success |-> TRUE, user_satisfaction |-> 90, resource_usage |-> 70]
ResultSecond == [success |-> TRUE, user_satisfaction |-> 80, resource_usage |-> 75]
ResultThird == [success |-> TRUE, user_satisfaction |-> 85, resource_usage |-> 80]

---------------------------------------------------------------------------
(* ConsciousnessEngine *)

LowerWord(w) ==
    CASE w = "Problem" -> "problem"
      [] w = "URGENT" -> "urgent"
      [] w = "Team" -> "team"
      [] OTHER -> w

Lower(description) == [i \in 1..Len(description) |-> LowerWord(description[i])]

_extract_primary_goal(description) ==
    IF Contains(description, "customer") /\ Contains(description, "email")
        THEN "customer_communication_optimization"
    ELSE IF Contains(description, "backup") \/ Contains(description, "save")
        THEN "data_preservation_and_security"
    ELSE IF Contains(description, "notify") \/ Contains(description, "alert")
        THEN "intelligent_notification_system"
    ELSE "workflow_automation_enhancement"

_analyze_emotional_context(description) ==
    [urgency |-> IF Contains(Lower(description), "urgent") THEN 70 ELSE 30,
     stress_level |-> IF Contains(Lower(description), "problem") THEN 80 ELSE 20,
     satisfaction_potential |-> 90,
     collaboration_need |-> IF Contains(Lower(description), "team") THEN 60 ELSE 30]

_discover_hidden_requirements(description) ==
    <<"error_handling_with_human_escalation", "security_compliance_validation",
      "performance_optimization", "user_experience_enhancement",
      "scalability_preparation">>

_find_optimization_paths(description) ==
    <<"parallel_execution_opportunities", "caching_strategy_implementation",
      "predictive_pre-execution", "intelligent_batching",
      "adaptive_timing_optimization">>

_identify_user_pain_points(description) ==
    <<"manual_repetitive_tasks", "context_switching_overhead",
      "error_recovery_complexity", "monitoring_and_visibility_gaps",
      "integration_maintenance_burden">>

understand_intent(description) ==
    [primary_goal |-> _extract_primary_goal(description),
     emotional_context |-> _analyze_emotional_context(description),
     hidden_requirements |-> _discover_hidden_requirements(description),
     optimization_opportunities |-> _find_optimization_paths(description),
     user_stress_points |-> _identify_user_pain_points(description)]

---------------------------------------------------------------------------
(* QuantumWorkflowEngine: what a workflow record is built from *)

WorkflowId(time, description) ==
    <<"qwf", time, hashOf[description] % IdModulus>>

\* complex(base_amplitude * f, im) with base_amplitude = 1/sqrt(3) is kept as <<f, im>>
_calculate_probability_amplitudes(intent) ==
    [optimal_path |-> <<100, 0>>, fallback_path |-> <<80, 20>>,
     creative_path |-> <<60, 40>>, learning_path |-> <<90, 10>>]

\* a catalog that offers the user-experience variant to customer workflows only
_generate_implementation_variants_by_goal(intent) ==
    LET variants ==
            << [type |-> "speed_optimized",
                characteristics |-> <<"parallel_execution", "minimal_validation", "cached_results">>,
                trade_offs |-> [speed |-> 95, reliability |-> 80, resource_usage |-> 90]],
               [type |-> "reliability_optimized",
                characteristics |-> <<"comprehensive_validation", "redundant_execution", "extensive_logging">>,
                trade_offs |-> [speed |-> 70, reliability |-> 98, resource_usage |-> 60]],
               [type |-> "learning_optimized",
                characteristics |-> <<"experimental_paths", "a_b_testing", "continuous_optimization">>,
                trade_offs |-> [speed |-> 80, reliability |-> 85, resource_usage |-> 70]],
               [type |-> "ux_optimized",
                characteristics |-> <<"intuitive_feedback", "proactive_communication", "graceful_degradation">>,
                trade_offs |-> [speed |-> 85, reliability |-> 90, resource_usage |-> 80]] >>
    IN IF Get(intent, "primary_goal", "") = "customer_communication_optimization"
       THEN variants
       ELSE SubSeq(variants, 1, 3)

_generate_implementation_variants(intent) ==
    << [type |-> "speed_optimized",
        characteristics |-> <<"parallel_execution", "minimal_validation", "cached_results">>,
        trade_offs |-> [speed |-> 95, reliability |-> 80, resource_usage |-> 90]],
       [type |-> "reliability_optimized",
        characteristics |-> <<"comprehensive_validation", "redundant_execution", "extensive_logging">>,
        trade_offs |-> [speed |-> 70, reliability |-> 98, resource_usage |-> 60]],
       [type |-> "learning_optimized",
        characteristics |-> <<"experimental_paths", "a_b_testing", "continuous_optimization">>,
        trade_offs |-> [speed |-> 80, reliability |-> 85, resource_usage |-> 70]],
       [type |-> "ux_optimized",
        characteristics |-> <<"intuitive_feedback", "proactive_communication", "graceful_degradation">>,
        trade_offs |-> [speed |-> 85, reliability |-> 90, resource_usage |-> 80]] >>

\* "customer" in primary_goal: of the four goals of _extract_primary_goal only
\* the customer communication one contains it
_calculate_consciousness_level(intent) ==
    LET base == 50
        stressed == IF Get(Get(intent, "emotional_context", EmptyDict), "stress_level", 0) > 50
                    THEN 20 ELSE 0
        complex == IF Len(Get(intent, "hidden_requirements", <<>>)) > 3 THEN 15 ELSE 0
        customer == IF Get(intent, "primary_goal", "") = "customer_communication_optimization"
                    THEN 20 ELSE 0
    IN Min(base + stressed + complex + customer, 100)

\* The three methods below are called by create_quantum_workflow (lines
\* 136-138) but are defined nowhere in the source, where the call raises
\* AttributeError before anything is stored.  Each is taken here to return
\* a value that no other code reads, so that a workflow can be created.
_discover_temporal_optimizations(intent) == "unspecified"

_find_entanglement_opportunities(intent) == "unspecified"

_assess_evolution_potential(intent) == "unspecified"

---------------------------------------------------------------------------
(* Variant selection *)

_analyze_execution_context(context) ==
    [time_pressure |-> Get(context, "urgency", 50),
     resource_availability |-> Get(context, "resources", 80),
     user_expertise |-> Get(context, "user_skill_level", 60),
     system_load |-> Get(context, "current_load", 30),
     error_tolerance |-> Get(context, "error_tolerance", 70)]

\* 30000 times the score of the source: the sum before the division by 3,
\* in units of 1/10000, and the 0.1 boost as 3000
\* a score that takes the error tolerance as it comes instead of inverting it
_calculate_variant_score_tolerant(variant, weights, intent) ==
    LET trade_offs == variant.trade_offs
        score == trade_offs.speed * weights.time_pressure
                 + trade_offs.reliability * weights.error_tolerance
                 + trade_offs.resource_usage * weights.resource_availability
    IN IF intent.primary_goal = "customer_communication_optimization" /\ variant.type = "ux_optimized"
       THEN score + 3000 ELSE score

\* a score without the bonus of the customer communication goal
_calculate_variant_score_no_bonus(variant, weights, intent) ==
    LET trade_offs == variant.trade_offs
    IN trade_offs.speed * weights.time_pressure
       + trade_offs.reliability * (100 - weights.error_tolerance)
       + trade_offs.resource_usage * weights.resource_availability

_calculate_variant_score(variant, weights, intent) ==
    LET trade_offs == variant.trade_offs
        score == trade_offs.speed * weights.time_pressure
                 + trade_offs.reliability * (100 - weights.error_tolerance)
                 + trade_offs.resource_usage * weights.resource_availability
    IN IF intent.primary_goal = "customer_communication_optimization"
          /\ variant.type = "ux_optimized"
       THEN score + 3000
       ELSE score

\* list.sort(key=score, reverse=True) is stable: of two entries of equal
\* score the one that came first stays first
RECURSIVE SortByScoreDescending(_)
SortByScoreDescending(pairs) ==
    IF Len(pairs) <= 1 THEN pairs
    ELSE LET rest == SortByScoreDescending(Tail(pairs))
             x == Head(pairs)
             before == SelectSeq(rest, LAMBDA p : p[1] > x[1])
             after == SelectSeq(rest, LAMBDA p : p[1] <= x[1])
         IN before \o <<x>> \o after

\* a selection that returns the winner as a copy annotated with its score
_select_optimal_variant_scored(workflow, context) ==
    LET variants == workflow["possible_implementations"]
        context_weights == _analyze_execution_context(context)
        variant_scores ==
            [i \in 1..Len(variants) |->
                <<_calculate_variant_score(variants[i], context_weights, workflow["intent"]),
                  variants[i]>>]
        best == SortByScoreDescending(variant_scores)[1]
    IN Update(best[2], [score |-> best[1]])

\* a selection that consults the fitness store: once any outcome is recorded
\* the lowest scoring variant is returned
_select_optimal_variant_learned(workflow, context) ==
    LET variants == workflow["possible_implementations"]
        context_weights == _analyze_execution_context(context)
        variant_scores ==
            [i \in 1..Len(variants) |->
                <<_calculate_variant_score(variants[i], context_weights, workflow["intent"]),
                  variants[i]>>]
        sorted == SortByScoreDescending(variant_scores)
    IN IF DOMAIN fitness_scores = {} THEN sorted[1][2] ELSE sorted[Len(sorted)][2]

\* a selection that consults the learned patterns: once the temporal patterns
\* of the workflow are known the lowest scoring variant is returned
_select_optimal_variant_predicted(workflow, context) ==
    LET variants == workflow["possible_implementations"]
        context_weights == _analyze_execution_context(context)
        variant_scores ==
            [i \in 1..Len(variants) |->
                <<_calculate_variant_score(variants[i], context_weights, workflow["intent"]),
                  variants[i]>>]
        sorted == SortByScoreDescending(variant_scores)
    IN IF workflow["id"] \in DOMAIN temporal_patterns THEN sorted[Len(sorted)][2] ELSE sorted[1][2]

_select_optimal_variant(workflow, context) ==
    LET variants == workflow["possible_implementations"]
        context_weights == _analyze_execution_context(context)
        variant_scores ==
            [i \in 1..Len(variants) |->
                <<_calculate_variant_score(variants[i], context_weights, workflow["intent"]),
                  variants[i]>>]
    IN SortByScoreDescending(variant_scores)[1][2]

---------------------------------------------------------------------------
(* Execution plan *)

base_steps ==
    << [step |-> "initialize", type |-> "setup", consciousness_required |-> FALSE],
       [step |-> "validate_inputs", type |-> "validation", consciousness_required |-> TRUE],
       [step |-> "execute_core_logic", type |-> "execution", consciousness_required |-> TRUE],
       [step |-> "handle_results", type |-> "processing", consciousness_required |-> TRUE],
       [step |-> "notify_completion", type |-> "communication", consciousness_required |-> FALSE] >>

\* an enhancement that logs the execution step only
EnhanceStep_core_logging(step, variant) ==
    LET s1 == IF Contains(variant.characteristics, "parallel_execution") /\ step.type = "execution"
              THEN Update(step, [parallelization |-> "enabled", thread_count |-> 4])
              ELSE step
        s2 == IF Contains(variant.characteristics, "comprehensive_validation") /\ step.type = "validation"
              THEN Update(s1, [validation_depth |-> "comprehensive",
                               validation_layers |-> <<"syntax", "semantic", "business_logic", "security">>])
              ELSE s1
        s3 == IF Contains(variant.characteristics, "extensive_logging") /\ step.type = "execution"
              THEN Update(s2, [logging_level |-> "detailed", monitoring |-> "real_time"])
              ELSE s2
    IN s3

\* an enhancement that looks at the first characteristic only
EnhanceStep_leading_tag(step, variant) ==
    LET leading == SubSeq(variant.characteristics, 1, Min(1, Len(variant.characteristics)))
        s1 == IF Contains(leading, "parallel_execution") /\ step.type = "execution"
              THEN Update(step, [parallelization |-> "enabled", thread_count |-> 4])
              ELSE step
        s2 == IF Contains(leading, "comprehensive_validation") /\ step.type = "validation"
              THEN Update(s1, [validation_depth |-> "comprehensive",
                               validation_layers |-> <<"syntax", "semantic", "business_logic", "security">>])
              ELSE s1
        s3 == IF Contains(leading, "extensive_logging")
              THEN Update(s2, [logging_level |-> "detailed", monitoring |-> "real_time"])
              ELSE s2
    IN s3

EnhanceStep(step, variant) ==
    LET s1 == IF Contains(variant.characteristics, "parallel_execution") /\ step.type = "execution"
              THEN Update(step, [parallelization |-> "enabled", thread_count |-> 4])
              ELSE step
        s2 == IF Contains(variant.characteristics, "comprehensive_validation") /\ step.type = "validation"
              THEN Update(s1, [validation_depth |-> "comprehensive",
                               validation_layers |-> <<"syntax", "semantic", "business_logic", "security">>])
              ELSE s1
        s3 == IF Contains(variant.characteristics, "extensive_logging")
              THEN Update(s2, [logging_level |-> "detailed", monitoring |-> "real_time"])
              ELSE s2
    IN s3

_generate_execution_plan(variant, intent) ==
    [i \in 1..Len(base_steps) |-> EnhanceStep(base_steps[i], variant)]

---------------------------------------------------------------------------
(* QuantumWorkflowEngine: the calls *)

LearningTask(kind, workflow_id, workflow) ==
    [kind |-> kind, workflow_id |-> workflow_id, intent |-> workflow["intent"],
     user_context |-> workflow["user_context"], wake |-> now + 1]

\* asyncio.create_task for the three coroutines, in this order: each holds
\* the id and the workflow dict it was given (of which it reads the intent
\* and the user context, which no code changes afterwards) and sleeps one
\* second before it writes.  The event loop wakes sleepers in the order of
\* their deadlines, which is the order the tasks were created in, and a
\* woken task runs to its end without yielding: pending is a queue.
start_predictive_learning(workflow_id, workflow) ==
    << LearningTask("temporal", workflow_id, workflow),
       LearningTask("trigger", workflow_id, workflow),
       LearningTask("user", workflow_id, workflow) >>

\* the dict create_quantum_workflow stores under the new id
quantum_workflow(description, user_context) ==
    LET intent == understand_intent(description)
    IN [id |-> WorkflowId(now, description),
        description |-> description,
        intent |-> intent,
        state |-> WorkflowState.SUPERPOSITION,
        probability_amplitudes |-> _calculate_probability_amplitudes(intent),
        possible_implementations |-> _generate_implementation_variants(intent),
        consciousness_level |-> _calculate_consciousness_level(intent),
        temporal_optimizations |-> _discover_temporal_optimizations(intent),
        entanglement_opportunities |-> _find_entanglement_opportunities(intent),
        evolution_potential |-> _assess_evolution_potential(intent),
        user_context |-> user_context,
        creation_timestamp |-> now]

create_quantum_workflow(description, user_context) ==
    LET intent == understand_intent(description)
        workflow_id == WorkflowId(now, description)
        new_workflow == quantum_workflow(description, user_context)
    IN /\ memory_network' = Put(memory_network, description, intent)
       /\ active_workflows' = Put(active_workflows, workflow_id, new_workflow)
       /\ pending' = pending \o start_predictive_learning(workflow_id, new_workflow)
       /\ ret' = [op |-> "create_quantum_workflow", workflow_id |-> workflow_id, raised |-> "none"]
       /\ created' = created + 1
       /\ UNCHANGED <<now, hashOf, simVars, mindVars, learnVars, trackerVars>>

\* a collapse that marks the workflow EVOLVING at once
collapsed_workflow_evolving(workflow_id, execution_context) ==
    LET workflow == active_workflows[workflow_id]
        selected_variant == _select_optimal_variant(workflow, execution_context)
    IN [id |-> workflow_id,
        state |-> WorkflowState.EVOLVING,
        selected_variant |-> selected_variant,
        execution_plan |-> _generate_execution_plan(selected_variant, workflow["intent"]),
        consciousness_level |-> workflow["consciousness_level"],
        execution_context |-> execution_context,
        collapse_timestamp |-> now]

\* a collapse that forgets the execution plan
collapsed_workflow_no_plan(workflow_id, execution_context) ==
    LET workflow == active_workflows[workflow_id]
        selected_variant == _select_optimal_variant(workflow, execution_context)
    IN [id |-> workflow_id,
        state |-> WorkflowState.COLLAPSED,
        selected_variant |-> selected_variant,
        consciousness_level |-> workflow["consciousness_level"],
        execution_context |-> execution_context,
        collapse_timestamp |-> now]

\* the dict collapse_workflow returns and merges into the stored workflow
collapsed_workflow(workflow_id, execution_context) ==
    LET workflow == active_workflows[workflow_id]
        selected_variant == _select_optimal_variant(workflow, execution_context)
    IN [id |-> workflow_id,
        state |-> WorkflowState.COLLAPSED,
        selected_variant |-> selected_variant,
        execution_plan |-> _generate_execution_plan(selected_variant, workflow["intent"]),
        consciousness_level |-> workflow["consciousness_level"],
        execution_context |-> execution_context,
        collapse_timestamp |-> now]

\* a collapse that awaits the learning tasks of the workflow before it selects
collapse_workflow_awaiting(workflow_id, execution_context) ==
    IF workflow_id \notin DOMAIN active_workflows
    THEN /\ ret' = [op |-> "collapse_workflow", workflow_id |-> workflow_id, raised |-> "ValueError",
                    message |-> [format |-> "Workflow {} not found", args |-> <<workflow_id>>]]
         /\ UNCHANGED <<now, hashOf, simVars, mindVars, engineVars, pending, learnVars, trackerVars, created>>
    ELSE /\ \A i \in 1..Len(pending) : pending[i].workflow_id # workflow_id
         /\ active_workflows[workflow_id]["possible_implementations"] # <<>>
         /\ active_workflows' =
                Put(active_workflows, workflow_id,
                    Update(active_workflows[workflow_id],
                           collapsed_workflow(workflow_id, execution_context)))
         /\ ret' = [op |-> "collapse_workflow", workflow_id |-> workflow_id, raised |-> "none"]
         /\ UNCHANGED <<now, hashOf, simVars, mindVars, memory_network, pending, learnVars, trackerVars, created>>

\* a collapse whose error for an unknown id does not say which id
collapse_workflow_anonymous(workflow_id, execution_context) ==
    IF workflow_id \notin DOMAIN active_workflows
    THEN /\ ret' = [op |-> "collapse_workflow", workflow_id |-> workflow_id, raised |-> "ValueError",
                    message |-> [format |-> "Workflow not found", args |-> <<>>]]
         /\ UNCHANGED <<now, hashOf, simVars, mindVars, engineVars, pending, learnVars, trackerVars, created>>
    ELSE IF active_workflows[workflow_id]["possible_implementations"] = <<>>
    THEN \* variant_scores[0] of _select_optimal_variant on an empty list
         /\ ret' = [op |-> "collapse_workflow", workflow_id |-> workflow_id, raised |-> "IndexError",
                    message |-> [format |-> "list index out of range", args |-> <<>>]]
         /\ UNCHANGED <<now, hashOf, simVars, mindVars, engineVars, pending, learnVars, trackerVars, created>>
    ELSE LET workflow == active_workflows[workflow_id]
             collapsed == collapsed_workflow(workflow_id, execution_context)
         IN /\ active_workflows' =
                    Put(active_workflows, workflow_id, Update(workflow, collapsed))
            /\ ret' = [op |-> "collapse_workflow", workflow_id |-> workflow_id, raised |-> "none"]
            /\ UNCHANGED <<now, hashOf, simVars, mindVars, memory_network, pending, learnVars, trackerVars, created>>

\* a collapse that marks the record COLLAPSED before it selects
collapse_workflow_eager(workflow_id, execution_context) ==
    IF workflow_id \notin DOMAIN active_workflows
    THEN /\ ret' = [op |-> "collapse_workflow", workflow_id |-> workflow_id, raised |-> "ValueError",
                    message |-> [format |-> "Workflow {} not found", args |-> <<workflow_id>>]]
         /\ UNCHANGED <<now, hashOf, simVars, mindVars, engineVars, pending, learnVars, trackerVars, created>>
    ELSE IF active_workflows[workflow_id]["possible_implementations"] = <<>>
    THEN \* variant_scores[0] of _select_optimal_variant on an empty list
         /\ ret' = [op |-> "collapse_workflow", workflow_id |-> workflow_id, raised |-> "IndexError",
                    message |-> [format |-> "list index out of range", args |-> <<>>]]
         /\ active_workflows' =
                Put(active_workflows, workflow_id,
                    Update(active_workflows[workflow_id], [state |-> WorkflowState.COLLAPSED]))
         /\ UNCHANGED <<now, hashOf, simVars, mindVars, memory_network, pending, learnVars, trackerVars, created>>
    ELSE LET workflow == active_workflows[workflow_id]
             collapsed == collapsed_workflow(workflow_id, execution_context)
         IN /\ active_workflows' =
                    Put(active_workflows, workflow_id, Update(workflow, collapsed))
            /\ ret' = [op |-> "collapse_workflow", workflow_id |-> workflow_id, raised |-> "none"]
            /\ UNCHANGED <<now, hashOf, simVars, mindVars, memory_network, pending, learnVars, trackerVars, created>>

collapse_workflow(workflow_id, execution_context) ==
    IF workflow_id \notin DOMAIN active_workflows
    THEN /\ ret' = [op |-> "collapse_workflow", workflow_id |-> workflow_id, raised |-> "ValueError",
                    message |-> [format |-> "Workflow {} not found", args |-> <<workflow_id>>]]
         /\ UNCHANGED <<now, hashOf, simVars, mindVars, engineVars, pending, learnVars, trackerVars, created>>
    ELSE IF active_workflows[workflow_id]["possible_implementations"] = <<>>
    THEN \* variant_scores[0] of _select_optimal_variant on an empty list
         /\ ret' = [op |-> "collapse_workflow", workflow_id |-> workflow_id, raised |-> "IndexError",
                    message |-> [format |-> "list index out of range", args |-> <<>>]]
         /\ UNCHANGED <<now, hashOf, simVars, mindVars, engineVars, pending, learnVars, trackerVars, created>>
    ELSE LET workflow == active_workflows[workflow_id]
             collapsed == collapsed_workflow(workflow_id, execution_context)
         IN /\ active_workflows' =
                    Put(active_workflows, workflow_id, Update(workflow, collapsed))
            /\ ret' = [op |-> "collapse_workflow", workflow_id |-> workflow_id, raised |-> "none"]
            /\ UNCHANGED <<now, hashOf, simVars, mindVars, memory_network, pending, learnVars, trackerVars, created>>

---------------------------------------------------------------------------
(* PredictiveExecutionEngine: the learning tasks *)

GoalWords(goal) ==
    CASE goal = "customer_communication_optimization" -> <<"customer", "communication", "optimization">>
      [] goal = "data_preservation_and_security" -> <<"data", "preservation", "and", "security">>
      [] goal = "intelligent_notification_system" -> <<"intelligent", "notification", "system">>
      [] OTHER -> <<"workflow", "automation", "enhancement">>

CustomerTriggers ==
    <<"new_customer_signup", "customer_support_request",
      "customer_feedback_received", "customer_churn_risk_detected">>

BackupTriggers ==
    <<"file_modification_detected", "scheduled_backup_time",
      "storage_threshold_reached", "critical_work_completed">>

TriggerPatterns(intent) ==
    (IF Contains(GoalWords(intent["primary_goal"]), "customer") THEN CustomerTriggers ELSE <<>>)
    \o (IF Contains(GoalWords(intent["primary_goal"]), "backup") THEN BackupTriggers ELSE <<>>)

\* 0.7 + np.random.random() * 0.3 for a draw of np.random.random(), in hundredths
Confidence(draw) == 70 + (draw * 30) \div 100

Range(seq) == {seq[i] : i \in 1..Len(seq)}

\* a temporal learner that keeps the entry of its own workflow only
_learn_temporal_patterns_alone(task) ==
    /\ pending # <<>> /\ task = Head(pending)
    /\ task.kind = "temporal" /\ now >= task.wake
    /\ temporal_patterns' = Put(EmptyDict, task.workflow_id,
            [peak_hours |-> <<9, 10, 14, 16>>,
             peak_days |-> <<"monday", "tuesday", "wednesday">>,
             seasonal_patterns |-> [end_of_month |-> 80, end_of_quarter |-> 90],
             user_behavior_patterns |-> [after_meeting |-> 70, before_deadline |-> 90]])
    /\ pending' = Tail(pending)
    /\ UNCHANGED <<now, hashOf, simVars, mindVars, engineVars, pattern_cache, prediction_models, trackerVars, ret, created>>

_learn_temporal_patterns(task) ==
    /\ pending # <<>> /\ task = Head(pending)
    /\ task.kind = "temporal" /\ now >= task.wake
    /\ temporal_patterns' = Put(temporal_patterns, task.workflow_id,
            [peak_hours |-> <<9, 10, 14, 16>>,
             peak_days |-> <<"monday", "tuesday", "wednesday">>,
             seasonal_patterns |-> [end_of_month |-> 80, end_of_quarter |-> 90],
             user_behavior_patterns |-> [after_meeting |-> 70, before_deadline |-> 90]])
    /\ pending' = Tail(pending)
    /\ UNCHANGED <<now, hashOf, simVars, mindVars, engineVars, pattern_cache, prediction_models, trackerVars, ret, created>>

\* the tasks of other workflows among the given ones
TasksOfOthers(tasks, workflow_id) ==
    SelectSeq(tasks, LAMBDA other : other.workflow_id # workflow_id)

\* a trigger learner whose failure takes the other tasks of its workflow with it
_learn_trigger_patterns_crashing(task, draws) ==
    /\ pending # <<>> /\ task = Head(pending)
    /\ task.kind = "trigger" /\ now >= task.wake
    /\ IF "primary_goal" \notin DOMAIN task.intent
       THEN /\ pending' = TasksOfOthers(Tail(pending), task.workflow_id)
            /\ UNCHANGED pattern_cache
       ELSE /\ LET trigger_patterns == TriggerPatterns(task.intent)
                   confidence_scores ==
                       [pattern \in Range(trigger_patterns) |-> Confidence(draws[pattern])]
               IN pattern_cache' = Put(pattern_cache, task.workflow_id,
                        [likely_triggers |-> trigger_patterns,
                         confidence_scores |-> confidence_scores])
            /\ pending' = Tail(pending)
    /\ UNCHANGED <<now, hashOf, simVars, mindVars, engineVars, temporal_patterns, prediction_models, trackerVars, ret, created>>

\* intent["primary_goal"] of an intent without this key raises KeyError
\* inside the task: the task ends there, nobody awaits it and the event
\* loop goes on with the other tasks
_learn_trigger_patterns(task, draws) ==
    /\ pending # <<>> /\ task = Head(pending)
    /\ task.kind = "trigger" /\ now >= task.wake
    /\ IF "primary_goal" \notin DOMAIN task.intent
       THEN /\ pending' = Tail(pending)
            /\ UNCHANGED pattern_cache
       ELSE /\ LET trigger_patterns == TriggerPatterns(task.intent)
                   confidence_scores ==
                       [pattern \in Range(trigger_patterns) |-> Confidence(draws[pattern])]
               IN pattern_cache' = Put(pattern_cache, task.workflow_id,
                        [likely_triggers |-> trigger_patterns,
                         confidence_scores |-> confidence_scores])
            /\ pending' = Tail(pending)
    /\ UNCHANGED <<now, hashOf, simVars, mindVars, engineVars, temporal_patterns, prediction_models, trackerVars, ret, created>>

\* a user learner that builds the patterns and forgets to store them
_learn_user_patterns_unstored(task) ==
    /\ pending # <<>> /\ task = Head(pending)
    /\ task.kind = "user" /\ now >= task.wake
    /\ pending' = Tail(pending)
    /\ UNCHANGED <<now, hashOf, simVars, mindVars, engineVars, learnVars, trackerVars, ret, created>>

_learn_user_patterns(task) ==
    /\ pending # <<>> /\ task = Head(pending)
    /\ task.kind = "user" /\ now >= task.wake
    /\ prediction_models' = Put(prediction_models, task.workflow_id,
            [work_schedule |-> [start |-> 9, end |-> 17, timezone |-> "UTC"],
             productivity_peaks |-> <<10, 14, 16>>,
             collaboration_patterns |-> [prefers_async |-> TRUE, response_time |-> 30],
             stress_indicators |-> <<"multiple_urgent_emails", "deadline_approaching">>,
             optimization_preferences |-> [speed_over_features |-> TRUE,
                                           minimal_interruptions |-> TRUE]])
    /\ pending' = Tail(pending)
    /\ UNCHANGED <<now, hashOf, simVars, mindVars, engineVars, temporal_patterns, pattern_cache, trackerVars, ret, created>>

---------------------------------------------------------------------------
(* WorkflowEvolutionTracker *)

RECURSIVE Gcd(_, _)
Gcd(a, b) == IF b = 0 THEN a ELSE Gcd(b, a % b)

Fraction(num, den) == LET g == Gcd(num, den) IN [num |-> num \div g, den |-> den \div g]

RECURSIVE Sum(_)
Sum(seq) == IF seq = <<>> THEN 0 ELSE Head(seq) + Sum(Tail(seq))

LastN(seq, n) == IF Len(seq) <= n THEN seq ELSE SubSeq(seq, Len(seq) - n + 1, Len(seq))

BoolToInt(b) == IF b = TRUE THEN 1 ELSE 0

\* a fitness over every entry ever recorded
_calculate_fitness_score_lifetime(history) ==
    LET n == Len(history)
        sat == Sum([i \in 1..n |-> history[i].user_satisfaction])
        eff == Sum([i \in 1..n |-> history[i].resource_efficiency])
        suc == Sum([i \in 1..n |-> BoolToInt(history[i].success_rate)])
    IN Fraction(4 * sat + 3 * eff + 300 * suc, 1000 * n)

\* a fitness that counts dissatisfaction instead of satisfaction
_calculate_fitness_score_inverted(history) ==
    LET recent_executions == LastN(history, HistoryWindow)
        n == Len(recent_executions)
        sat == Sum([i \in 1..n |-> 100 - recent_executions[i].user_satisfaction])
        eff == Sum([i \in 1..n |-> recent_executions[i].resource_efficiency])
        suc == Sum([i \in 1..n |-> BoolToInt(recent_executions[i].success_rate)])
    IN Fraction(4 * sat + 3 * eff + 300 * suc, 1000 * n)

\* a fitness that weighs the efficiency 0.4 and the satisfaction 0.3
_calculate_fitness_score_swapped(history) ==
    LET recent_executions == LastN(history, HistoryWindow)
        n == Len(recent_executions)
        sat == Sum([i \in 1..n |-> recent_executions[i].user_satisfaction])
        eff == Sum([i \in 1..n |-> recent_executions[i].resource_efficiency])
        suc == Sum([i \in 1..n |-> BoolToInt(recent_executions[i].success_rate)])
    IN Fraction(3 * sat + 4 * eff + 300 * suc, 1000 * n)

\* avg_satisfaction * 0.4 + avg_efficiency * 0.3 + success_rate * 0.3 over the
\* n most recent entries, as the fraction (4*S + 3*E + 300*T) / (1000*n) where
\* S and E are sums of hundredths and T counts the successes
_calculate_fitness_score(history) ==
    LET recent_executions == LastN(history, HistoryWindow)
        n == Len(recent_executions)
        sat == Sum([i \in 1..n |-> recent_executions[i].user_satisfaction])
        eff == Sum([i \in 1..n |-> recent_executions[i].resource_efficiency])
        suc == Sum([i \in 1..n |-> BoolToInt(recent_executions[i].success_rate)])
    IN Fraction(4 * sat + 3 * eff + 300 * suc, 1000 * n)

ModerateMutations ==
    <<"optimize_execution_order", "add_parallel_processing", "implement_caching",
      "reduce_validation_overhead", "improve_error_handling">>

SevereMutations ==
    <<"complete_architecture_redesign", "alternative_implementation_strategy",
      "user_experience_overhaul", "integration_method_change">>

\* suggestions whose thresholds include 0.7 and 0.5 themselves
_suggest_mutations_inclusive(fitness) ==
    (IF 10 * fitness.num <= 7 * fitness.den THEN ModerateMutations ELSE <<>>)
    \o (IF 10 * fitness.num <= 5 * fitness.den THEN SevereMutations ELSE <<>>)

_suggest_mutations(fitness) ==
    (IF 10 * fitness.num < 7 * fitness.den THEN ModerateMutations ELSE <<>>)
    \o (IF 10 * fitness.num < 5 * fitness.den THEN SevereMutations ELSE <<>>)

\* a tracker that puts the newest outcome first
track_execution_newest_first(workflow_id, execution_result) ==
    LET old == Get(evolution_history, workflow_id, <<>>)
        evolution_data ==
            [timestamp |-> now,
             execution_time |-> Get(execution_result, "duration", 0),
             success_rate |-> Get(execution_result, "success", TRUE),
             user_satisfaction |-> Get(execution_result, "user_satisfaction", 80),
             resource_efficiency |-> Get(execution_result, "resource_usage", 70),
             error_count |-> Get(execution_result, "errors", 0),
             improvement_suggestions |-> Get(execution_result, "ai_suggestions", <<>>)]
        history == <<evolution_data>> \o old
        fitness == _calculate_fitness_score(history)
    IN /\ evolution_history' = Put(evolution_history, workflow_id, history)
       /\ fitness_scores' = Put(fitness_scores, workflow_id, fitness)
       /\ mutation_strategies' = Put(mutation_strategies, workflow_id, _suggest_mutations(fitness))
       /\ ret' = [op |-> "track_execution", workflow_id |-> workflow_id, raised |-> "none"]
       /\ UNCHANGED <<now, hashOf, simVars, mindVars, engineVars, pending, learnVars, created>>

\* a tracker that adds the new suggestions to those it has
track_execution_accumulating(workflow_id, execution_result) ==
    LET old == Get(evolution_history, workflow_id, <<>>)
        evolution_data ==
            [timestamp |-> now,
             execution_time |-> Get(execution_result, "duration", 0),
             success_rate |-> Get(execution_result, "success", TRUE),
             user_satisfaction |-> Get(execution_result, "user_satisfaction", 80),
             resource_efficiency |-> Get(execution_result, "resource_usage", 70),
             error_count |-> Get(execution_result, "errors", 0),
             improvement_suggestions |-> Get(execution_result, "ai_suggestions", <<>>)]
        history == Append(old, evolution_data)
        fitness == _calculate_fitness_score(history)
    IN /\ evolution_history' = Put(evolution_history, workflow_id, history)
       /\ fitness_scores' = Put(fitness_scores, workflow_id, fitness)
       /\ mutation_strategies' = Put(mutation_strategies, workflow_id,
                                     Get(mutation_strategies, workflow_id, <<>>)
                                         \o _suggest_mutations(fitness))
       /\ ret' = [op |-> "track_execution", workflow_id |-> workflow_id, raised |-> "none"]
       /\ UNCHANGED <<now, hashOf, simVars, mindVars, engineVars, pending, learnVars, created>>

track_execution(workflow_id, execution_result) ==
    LET old == Get(evolution_history, workflow_id, <<>>)
        evolution_data ==
            [timestamp |-> now,
             execution_time |-> Get(execution_result, "duration", 0),
             success_rate |-> Get(execution_result, "success", TRUE),
             user_satisfaction |-> Get(execution_result, "user_satisfaction", 80),
             resource_efficiency |-> Get(execution_result, "resource_usage", 70),
             error_count |-> Get(execution_result, "errors", 0),
             improvement_suggestions |-> Get(execution_result, "ai_suggestions", <<>>)]
        history == Append(old, evolution_data)
        fitness == _calculate_fitness_score(history)
    IN /\ evolution_history' = Put(evolution_history, workflow_id, history)
       /\ fitness_scores' = Put(fitness_scores, workflow_id, fitness)
       /\ mutation_strategies' = Put(mutation_strategies, workflow_id, _suggest_mutations(fitness))
       /\ ret' = [op |-> "track_execution", workflow_id |-> workflow_id, raised |-> "none"]
       /\ UNCHANGED <<now, hashOf, simVars, mindVars, engineVars, pending, learnVars, created>>

---------------------------------------------------------------------------
(* RealitySimulator *)

\* the scenario tags a caller passes
Scenarios == {"high_load"}

\* what np.random.uniform(10, 90) gives for cpu_usage; the other draws of
\* _generate_mock_data are kept fixed
MockDraws == {10, 90}

\* f"sim_{workflow_id}_{scenario}_{int(time.time())}", kept as its parts
SimId(workflow_id, scenario, time) == <<"sim", workflow_id, scenario, time>>

_create_virtual_systems(scenario) ==
    [email_system |-> [type |-> "mock", response_time |-> 100, failure_rate |-> 100],
     database |-> [type |-> "in_memory", response_time |-> 10, failure_rate |-> 10],
     api_endpoints |-> [type |-> "mock", response_time |-> 200, failure_rate |-> 500],
     file_system |-> [type |-> "virtual", response_time |-> 50, failure_rate |-> 20]]

_generate_mock_data(scenario, draw) ==
    [customer_data |-> 100, transaction_data |-> 50,
     system_metrics |-> [cpu_usage |-> draw, memory_usage |-> 30, network_latency |-> 50]]

_inject_chaos_elements(scenario) ==
    << [type |-> "network_latency", probability |-> 10],
       [type |-> "service_unavailable", probability |-> 5],
       [type |-> "data_corruption", probability |-> 1],
       [type |-> "rate_limit_exceeded", probability |-> 8],
       [type |-> "authentication_failure", probability |-> 3] >>

_define_success_criteria(scenario) ==
    [execution_time_under |-> 30, success_rate_above |-> 95, user_satisfaction_above |-> 80,
     resource_efficiency_above |-> 70, error_recovery_time_under |-> 5]

_create_parallel_realities(scenario) ==
    <<"high_load", "low_resources", "network_issues", "perfect_conditions">>

simulation_env(workflow_id, scenario, draw) ==
    [id |-> SimId(workflow_id, scenario, now),
     workflow_id |-> workflow_id,
     scenario |-> scenario,
     virtual_systems |-> _create_virtual_systems(scenario),
     mock_data |-> _generate_mock_data(scenario, draw),
     chaos_elements |-> _inject_chaos_elements(scenario),
     success_criteria |-> _define_success_criteria(scenario),
     parallel_realities |-> _create_parallel_realities(scenario)]

\* a build that marks the workflow it is built for
create_simulation_environment_marking(workflow_id, scenario, draw) ==
    /\ simulation_environments' =
           Put(simulation_environments, SimId(workflow_id, scenario, now),
               simulation_env(workflow_id, scenario, draw))
    /\ active_workflows' =
           IF workflow_id \in DOMAIN active_workflows
           THEN Put(active_workflows, workflow_id,
                    Update(active_workflows[workflow_id], [state |-> WorkflowState.EVOLVING]))
           ELSE active_workflows
    /\ ret' = [op |-> "create_simulation_environment", workflow_id |-> workflow_id,
               raised |-> "none", value |-> SimId(workflow_id, scenario, now)]
    /\ UNCHANGED <<now, hashOf, mindVars, memory_network, pending, learnVars, trackerVars, created>>

create_simulation_environment(workflow_id, scenario, draw) ==
    /\ simulation_environments' =
           Put(simulation_environments, SimId(workflow_id, scenario, now),
               simulation_env(workflow_id, scenario, draw))
    /\ ret' = [op |-> "create_simulation_environment", workflow_id |-> workflow_id,
               raised |-> "none", value |-> SimId(workflow_id, scenario, now)]
    /\ UNCHANGED <<now, hashOf, mindVars, engineVars, pending, learnVars, trackerVars, created>>

---------------------------------------------------------------------------
(* ConsciousnessInterfaceEngine (consciousness_interface.py).  A profile  *)
(* dict is one object that active_connections and consciousness_profiles *)
(* both refer to: profiles holds the objects by serial number and the two *)
(* stores hold the number.  awareness_level is kept in thousandths and    *)
(* connection_quality in ten-thousandths; the random arrays and baselines *)
(* of a profile, which nothing modelled here reads, are left out.         *)

UserAlice == <<"user", "alice">>
UserBob == <<"user", "bob">>
Users == {UserAlice, UserBob}

\* hash(user_id) % 100 of this process
UserExperience(user_id) == IF user_id = UserAlice THEN 0 ELSE 50

\* f"consciousness_{user_id}_{int(time.time())}"
ConnectionId(user_id, time) == <<"consciousness">> \o user_id \o <<time>>

\* min(0.5 + experience / 100 * 0.4, 1.0)
_assess_awareness_level(user_id) == Min(500 + 4 * UserExperience(user_id), 1000)

consciousness_profile(user_id, device_type) ==
    [user_id |-> user_id,
     connection_id |-> ConnectionId(user_id, now),
     device_type |-> device_type,
     awareness_level |-> _assess_awareness_level(user_id),
     intention_patterns |-> EmptyDict,
     connection_quality |-> 9500,
     quantum_entanglement_strength |-> 0]

\* the two tasks initialize_consciousness_connection creates, in this order.
\* Both start when the call has returned: the monitor runs its first
\* iteration and sleeps 0.1 s, then the analysis makes its first pass and
\* sleeps 30 s.  serial tells the tasks of one call from those of another;
\* profile is the local variable of the monitor, unset (0) until it starts.
NewStreams(connection_id, serial) ==
    {[kind |-> "monitor", connection_id |-> connection_id, serial |-> serial,
      profile |-> 0, rounds |-> 0, wake |-> now],
     [kind |-> "analysis", connection_id |-> connection_id, serial |-> serial,
      profile |-> 0, rounds |-> 0, wake |-> now]}

initialize_consciousness_connection(user_id, device_type) ==
    LET connection_id == ConnectionId(user_id, now)
        object == Cardinality(DOMAIN profiles) + 1
    IN /\ profiles' = Put(profiles, object, consciousness_profile(user_id, device_type))
       /\ active_connections' = Put(active_connections, connection_id, object)
       /\ consciousness_profiles' = Put(consciousness_profiles, user_id, object)
       /\ streams' = streams \cup NewStreams(connection_id, object)
       /\ ret' = [op |-> "initialize_consciousness_connection", workflow_id |-> <<>>,
                  raised |-> "none", value |-> connection_id]
       /\ UNCHANGED <<now, hashOf, simVars, engineVars, pending, learnVars, trackerVars, created,
                      thought_patterns, feedback_log, analysis_pass>>

\* what _capture_thought_snapshot and _analyze_thought_pattern make of the
\* random draws of one iteration: no pattern (no significant thought, or a
\* clarity of 0.6 or less) or a ThoughtPattern, of which the fields below
\* are kept; pattern_id is f"pattern_{int(time.time())}_{randint(1000)}"
NoThought == [intention_type |-> "none"]

ThoughtDraws ==
    {[intention_type |-> "optimize", emotional_resonance |-> 60, clarity_level |-> 70,
      consciousness_state |-> "focused", temporal_context |-> "near_future",
      symbolic_content |-> <<"flow">>]}

ThoughtPattern(draw, serial) == Update(draw, [pattern_id |-> <<"pattern", now, serial>>])

SuggestedFor(intention_type) ==
    CASE intention_type = "create" ->
            [suggested_triggers |-> <<"creative_inspiration_detected", "idea_clarity_threshold">>,
             suggested_actions |-> <<"capture_idea", "expand_concept", "manifest_creation">>,
             consciousness_enhancements |-> <<"creativity_amplification", "inspiration_flow">>]
      [] intention_type = "optimize" ->
            [suggested_triggers |-> <<"inefficiency_detected", "improvement_opportunity">>,
             suggested_actions |-> <<"analyze_current_state", "identify_bottlenecks", "implement_optimization">>,
             consciousness_enhancements |-> <<"clarity_enhancement", "efficiency_focus">>]
      [] intention_type = "heal" ->
            [suggested_triggers |-> <<"suffering_detected", "healing_opportunity">>,
             suggested_actions |-> <<"assess_need", "provide_support", "facilitate_healing">>,
             consciousness_enhancements |-> <<"compassion_amplification", "healing_energy">>]
      [] intention_type = "connect" ->
            [suggested_triggers |-> <<"connection_opportunity", "isolation_detected">>,
             suggested_actions |-> <<"facilitate_introduction", "create_collaboration", "build_bridges">>,
             consciousness_enhancements |-> <<"empathy_enhancement", "unity_consciousness">>]
      [] intention_type = "transcend" ->
            [suggested_triggers |-> <<"limitation_encountered", "growth_opportunity">>,
             suggested_actions |-> <<"identify_limitation", "transcend_boundary", "expand_consciousness">>,
             consciousness_enhancements |-> <<"transcendence_activation", "consciousness_expansion">>]
      [] OTHER ->
            [suggested_triggers |-> <<>>, suggested_actions |-> <<>>,
             consciousness_enhancements |-> <<>>]

_generate_workflow_from_thought(pattern) ==
    LET suggested == SuggestedFor(pattern.intention_type)
    IN [name |-> "Consciousness-Created Workflow",
        intention_type |-> pattern.intention_type,
        consciousness_state |-> pattern.consciousness_state,
        symbolic_elements |-> pattern.symbolic_content,
        emotional_resonance |-> pattern.emotional_resonance,
        clarity_level |-> pattern.clarity_level,
        suggested_triggers |-> suggested.suggested_triggers,
        suggested_actions |-> suggested.suggested_actions
            \o [i \in 1..Len(pattern.symbolic_content) |->
                    <<"integrate", pattern.symbolic_content[i], "principle">>],
        consciousness_enhancements |-> suggested.consciousness_enhancements]

\* the profile objects after _send_consciousness_feedback(connection_id,
\* feedback): the profile is looked up in consciousness_profiles under the
\* connection id
_send_consciousness_feedback(objects, connection_id, feedback) ==
    IF connection_id \notin DOMAIN consciousness_profiles
    THEN objects
    ELSE LET object == consciousness_profiles[connection_id]
             profile == objects[object]
         IN Put(objects, object,
                Update(profile,
                       [feedback_queue |->
                            Append(Get(profile, "feedback_queue", <<>>),
                                   [timestamp |-> now, feedback |-> feedback])]))

\* the profile objects after _update_consciousness_state(profile)
_update_consciousness_state(objects, object) ==
    LET new_awareness == Min(objects[object].awareness_level + 1, 1000)
    IN Put(objects, object,
           Update(objects[object],
                  [awareness_level |-> new_awareness,
                   connection_quality |-> Min(9000 + new_awareness, 10000)]))

workflow_suggestion_feedback(pattern) ==
    [type |-> "workflow_suggestion",
     pattern_id |-> pattern.pattern_id,
     suggestion |-> _generate_workflow_from_thought(pattern),
     consciousness_confidence |-> pattern.clarity_level * pattern.emotional_resonance]

\* the other task that the same call of initialize_consciousness_connection created
Sibling(task) ==
    CHOOSE other \in streams :
        other.serial = task.serial /\ other.kind # task.kind

\* one iteration of the loop of _monitor_consciousness_stream: a pattern,
\* if one was detected, is stored and a suggestion is sent for it
\* (_process_thought_pattern), then the profile of the task is updated.
\* The second iteration comes 0.1 s after the first, when the analysis
\* of the same connection has made its first pass.
_monitor_consciousness_stream(task, draw, serial) ==
    /\ task \in streams /\ task.kind = "monitor"
    /\ task.connection_id \in DOMAIN active_connections
    /\ task.rounds < MaxBeats
    /\ task.rounds >= 1 => Sibling(task).rounds >= 1
    /\ LET connection_id == task.connection_id
           profile == IF task.rounds = 0 THEN active_connections[connection_id] ELSE task.profile
           pattern == ThoughtPattern(draw, serial)
           feedback == workflow_suggestion_feedback(pattern)
       IN /\ IF draw = NoThought
             THEN /\ profiles' = _update_consciousness_state(profiles, profile)
                  /\ UNCHANGED <<thought_patterns, feedback_log>>
             ELSE /\ thought_patterns' =
                         Put(thought_patterns, connection_id,
                             Append(Get(thought_patterns, connection_id, <<>>), pattern))
                  /\ feedback_log' =
                         Append(feedback_log, [connection_id |-> connection_id, feedback |-> feedback])
                  /\ profiles' =
                         _update_consciousness_state(
                             _send_consciousness_feedback(profiles, connection_id, feedback),
                             profile)
          /\ streams' = (streams \ {task})
                            \cup {Update(task, [profile |-> profile, rounds |-> task.rounds + 1])}
    /\ UNCHANGED <<now, hashOf, simVars, engineVars, pending, learnVars, trackerVars, ret, created,
                   active_connections, consciousness_profiles, analysis_pass>>

\* hasattr(pattern, 'timestamp'): a ThoughtPattern has the fields of lines 34-41
HasTimestamp(pattern) == "timestamp" \in DOMAIN pattern

_get_recent_patterns(connection_id, time_window) ==
    IF connection_id \notin DOMAIN thought_patterns
    THEN <<>>
    ELSE SelectSeq(thought_patterns[connection_id],
                   LAMBDA pattern : HasTimestamp(pattern) /\ now - pattern["timestamp"] < time_window)

\* the clarity levels of the patterns of one intention type, in order
ClarityLevels(patterns, intention_type) ==
    LET of_type == SelectSeq(patterns, LAMBDA pattern : pattern.intention_type = intention_type)
    IN [i \in 1..Len(of_type) |-> of_type[i].clarity_level]

\* np.mean(levels[-2:]) - np.mean(levels[:-2]) as a fraction (the levels
\* are hundredths), 0 for two levels
ClarityTrend(levels) ==
    IF Len(levels) > 2
    THEN [num |-> (Len(levels) - 2) * Sum(SubSeq(levels, Len(levels) - 1, Len(levels)))
                      - 2 * Sum(SubSeq(levels, 1, Len(levels) - 2)),
          den |-> 100 * 2 * (Len(levels) - 2)]
    ELSE [num |-> 0, den |-> 1]

\* trend > hundredths / 100
TrendAbove(trend, hundredths) == 100 * trend.num > hundredths * trend.den

\* the intention types of the patterns in the order they first occur
IntentionTypes(patterns) ==
    LET firsts == SelectSeq([i \in 1..Len(patterns) |-> i],
                            LAMBDA i : \A j \in 1..(i - 1) :
                                patterns[j].intention_type # patterns[i].intention_type)
    IN [k \in 1..Len(firsts) |-> patterns[firsts[k]].intention_type]

_generate_precognitive_insights(patterns, connection_id) ==
    LET types == SelectSeq(IntentionTypes(patterns),
                           LAMBDA type :
                               /\ Len(ClarityLevels(patterns, type)) >= 2
                               /\ TrendAbove(ClarityTrend(ClarityLevels(patterns, type)), 10))
    IN [k \in 1..Len(types) |->
           LET levels == ClarityLevels(patterns, types[k])
               trend == ClarityTrend(levels)
           IN [insight_id |-> <<"precog", connection_id, now>>,
               probability |-> [num |-> 70 * trend.den + 100 * trend.num, den |-> 100 * trend.den],
               timeline |-> "next_24_hours",
               trigger_conditions |-> <<<<types[k], "opportunity_emerging">>>>,
               recommended_workflow |->
                   [type |-> types[k],
                    urgency |-> IF TrendAbove(trend, 30) THEN "high" ELSE "medium",
                    preparation_time |-> IF TrendAbove(trend, 50) THEN "immediate" ELSE "soon"],
               consciousness_confidence |-> [num |-> Sum(levels), den |-> 100 * Len(levels)],
               reality_anchors |-> <<<<types[k], "manifestation">>, <<"consciousness_alignment">>>>]]

precognitive_alert(insight) ==
    [type |-> "precognitive_insight",
     insight_id |-> insight.insight_id,
     probability |-> insight.probability,
     timeline |-> insight.timeline,
     recommendation |-> insight.recommended_workflow,
     confidence |-> insight.consciousness_confidence,
     message |-> [format |-> "Precognitive insight: {} opportunity in {}",
                  args |-> <<insight.recommended_workflow.type, insight.timeline>>]]

RECURSIVE SendAll(_, _, _)
SendAll(objects, connection_id, feedbacks) ==
    IF feedbacks = <<>> THEN objects
    ELSE SendAll(_send_consciousness_feedback(objects, connection_id, Head(feedbacks)),
                 connection_id, Tail(feedbacks))

\* one pass of the loop of _precognitive_analysis: the recent patterns are
\* fetched and, when there are at least MinPatterns, insights are generated
\* from them and an alert is sent for each; then the task sleeps
\* AnalysisInterval seconds.  The first pass follows the first iteration
\* of the monitor of the same connection.
_precognitive_analysis(task) ==
    /\ task \in streams /\ task.kind = "analysis"
    /\ task.connection_id \in DOMAIN active_connections
    /\ now >= task.wake
    /\ Sibling(task).rounds >= 1
    /\ LET connection_id == task.connection_id
           recent_patterns == _get_recent_patterns(connection_id, PatternWindow)
           evaluated == Len(recent_patterns) >= MinPatterns
           insights == IF evaluated
                       THEN _generate_precognitive_insights(recent_patterns, connection_id)
                       ELSE <<>>
           alerts == [k \in 1..Len(insights) |-> precognitive_alert(insights[k])]
       IN /\ analysis_pass' = [connection_id |-> connection_id, at |-> now,
                               recent |-> recent_patterns, evaluated |-> evaluated]
          /\ feedback_log' = feedback_log
                 \o [k \in 1..Len(alerts) |-> [connection_id |-> connection_id, feedback |-> alerts[k]]]
          /\ profiles' = SendAll(profiles, connection_id, alerts)
    /\ streams' = (streams \ {task})
                      \cup {Update(task, [rounds |-> task.rounds + 1, wake |-> now + AnalysisInterval])}
    /\ UNCHANGED <<now, hashOf, simVars, engineVars, pending, learnVars, trackerVars, ret, created,
                   active_connections, consciousness_profiles, thought_patterns>>

---------------------------------------------------------------------------
(* The clock and the specification *)

Tick ==
    /\ now < MaxTime
    /\ now' = now + 1
    /\ UNCHANGED <<hashOf, simVars, mindVars, engineVars, pending, learnVars, trackerVars, ret, created>>

\* an id that create_quantum_workflow never makes
UnknownId == <<"qwf", 0, 0>>

\* the ids a caller passes: those create_quantum_workflow returned, or an unknown one
CallerIds == DOMAIN active_workflows \cup {UnknownId}

Init ==
    /\ now = 0
    /\ hashOf \in [Descriptions -> HashValues]
    /\ memory_network = EmptyDict
    /\ active_workflows = EmptyDict
    /\ pending = <<>>
    /\ temporal_patterns = EmptyDict
    /\ pattern_cache = EmptyDict
    /\ prediction_models = EmptyDict
    /\ evolution_history = EmptyDict
    /\ fitness_scores = EmptyDict
    /\ mutation_strategies = EmptyDict
    /\ ret = [op |-> "none", workflow_id |-> <<>>, raised |-> "none"]
    /\ created = 0
    /\ simulation_environments = EmptyDict
    /\ profiles = EmptyDict
    /\ active_connections = EmptyDict
    /\ consciousness_profiles = EmptyDict
    /\ streams = {}
    /\ thought_patterns = EmptyDict
    /\ feedback_log = <<>>
    /\ analysis_pass = [connection_id |-> <<>>, recent |-> <<>>, evaluated |-> FALSE]

RECURSIVE CountOutcomes(_)
CountOutcomes(ids) ==
    IF ids = {} THEN 0
    ELSE LET id == CHOOSE x \in ids : TRUE
         IN Len(evolution_history[id]) + CountOutcomes(ids \ {id})

TotalOutcomes == CountOutcomes(DOMAIN evolution_history)

Create ==
    \E description \in Descriptions, user_context \in UserContexts :
        /\ created < MaxCreates
        /\ create_quantum_workflow(description, user_context)

Collapse ==
    \E workflow_id \in CallerIds, execution_context \in ExecutionContexts :
        collapse_workflow(workflow_id, execution_context)

Track ==
    \E workflow_id \in CallerIds, execution_result \in ExecutionResults :
        /\ TotalOutcomes < MaxOutcomes
        /\ track_execution(workflow_id, execution_result)

\* what np.random.random() returns, in hundredths
RandomDraws == {0}

LearnTemporal == \E task \in Range(pending) : _learn_temporal_patterns(task)

LearnTrigger ==
    \E task \in Range(pending) :
        \E draws \in [Range(CustomerTriggers \o BackupTriggers) -> RandomDraws] :
            _learn_trigger_patterns(task, draws)

LearnUser == \E task \in Range(pending) : _learn_user_patterns(task)

Next ==
    \/ Tick
    \/ Create
    \/ Collapse
    \/ Track
    \/ LearnTemporal
    \/ LearnTrigger
    \/ LearnUser

Spec == Init /\ [][Next]_vars

---------------------------------------------------------------------------
(* Selection and planning as functions of their inputs: the store holds   *)
(* one workflow dict as create_quantum_workflow builds it, whose list of  *)
(* variants is the generated one, an empty one or a single drawn variant, *)
(* and collapse_workflow is applied to it.                                *)

PlanTags == {"parallel_execution", "comprehensive_validation", "extensive_logging",
             "minimal_validation"}

\* lists of characteristics, in every order and with repetitions
TagLists == UNION {[1..n -> PlanTags] : n \in 0..MaxTags}

DrawnVariant(characteristics) ==
    [type |-> "custom",
     characteristics |-> characteristics,
     trade_offs |-> [speed |-> 50, reliability |-> 50, resource_usage |-> 50]]

SelectCatalogs(intent) ==
    {_generate_implementation_variants(intent), <<>>}
        \cup {<<DrawnVariant(characteristics)>> : characteristics \in TagLists}

SelectContexts == {CtxDefault, CtxScenario, CtxCareful, CtxTie, CtxOutOfRange, CtxRushed}

InitSelect ==
    /\ now = 0
    /\ hashOf \in [Descriptions -> HashValues]
    /\ memory_network = EmptyDict
    /\ \E description \in Descriptions, user_context \in UserContexts :
           \E catalog \in SelectCatalogs(understand_intent(description)) :
               active_workflows =
                   Put(EmptyDict, WorkflowId(now, description),
                       Update(quantum_workflow(description, user_context),
                              [possible_implementations |-> catalog]))
    /\ pending = <<>>
    /\ temporal_patterns = EmptyDict
    /\ pattern_cache = EmptyDict
    /\ prediction_models = EmptyDict
    /\ evolution_history = EmptyDict
    /\ fitness_scores = EmptyDict
    /\ mutation_strategies = EmptyDict
    /\ ret = [op |-> "none", workflow_id |-> <<>>, raised |-> "none"]
    /\ created = 0
    /\ simulation_environments = EmptyDict
    /\ profiles = EmptyDict
    /\ active_connections = EmptyDict
    /\ consciousness_profiles = EmptyDict
    /\ streams = {}
    /\ thought_patterns = EmptyDict
    /\ feedback_log = <<>>
    /\ analysis_pass = [connection_id |-> <<>>, recent |-> <<>>, evaluated |-> FALSE]

CollapseDrawn ==
    \E workflow_id \in CallerIds, execution_context \in SelectContexts :
        collapse_workflow(workflow_id, execution_context)

NextSelect == CollapseDrawn

SpecSelect == InitSelect /\ [][NextSelect]_vars

---------------------------------------------------------------------------
(* The tracker on its own: track_execution reads nothing of the workflow  *)
(* store, so outcomes are recorded under an id without any other call.    *)

\* up to MaxHistory outcomes of one id: more than the window of the fitness holds
TrackLong ==
    \E workflow_id \in CallerIds, execution_result \in ExecutionResults :
        /\ Len(Get(evolution_history, workflow_id, <<>>)) < MaxHistory
        /\ track_execution(workflow_id, execution_result)

NextFitness == TrackLong

SpecFitness == Init /\ [][NextFitness]_vars

OutcomeResults ==
    {ResultDefault, ResultFailed, ResultPerfect, ResultWorst, ResultOutOfRange}

\* up to MaxRun outcomes of one id, of every kind
TrackOutcome ==
    \E workflow_id \in CallerIds, execution_result \in OutcomeResults :
        /\ Len(Get(evolution_history, workflow_id, <<>>)) < MaxRun
        /\ track_execution(workflow_id, execution_result)

NextOutcomes == TrackOutcome

SpecOutcomes == Init /\ [][NextOutcomes]_vars

(* One workflow under every operation, with up to MaxRun outcomes recorded *)
(* under its id or under an unknown one.                                  *)

CreateFirst ==
    \E description \in Descriptions, user_context \in UserContexts :
        /\ DOMAIN active_workflows = {}
        /\ create_quantum_workflow(description, user_context)

TrackRun ==
    \E workflow_id \in CallerIds, execution_result \in ExecutionResults :
        /\ TotalOutcomes < MaxRun
        /\ track_execution(workflow_id, execution_result)

NextHistory ==
    \/ Tick
    \/ CreateFirst
    \/ Collapse
    \/ TrackRun
    \/ LearnTemporal
    \/ LearnTrigger
    \/ LearnUser

SpecHistory == Init /\ [][NextHistory]_vars

(* Learning started by a direct call of start_predictive_learning with a *)
(* workflow dict whose intent has no primary_goal, next to one workflow   *)
(* under every operation.                                                 *)

DamagedWorkflow == [intent |-> EmptyDict, user_context |-> [user_id |-> "user123"]]

\* start_predictive_learning(workflow_id, workflow) called by itself: the
\* three tasks are created and the call returns
StartLearning ==
    \E workflow_id \in CallerIds :
        /\ \A task \in Range(pending) : "primary_goal" \in DOMAIN task.intent
        /\ pending' = pending \o start_predictive_learning(workflow_id, DamagedWorkflow)
        /\ ret' = [op |-> "start_predictive_learning", workflow_id |-> workflow_id, raised |-> "none"]
        /\ UNCHANGED <<now, hashOf, simVars, mindVars, engineVars, learnVars, trackerVars, created>>

NextLearn ==
    \/ Tick
    \/ CreateFirst
    \/ StartLearning
    \/ Collapse
    \/ Track
    \/ LearnTemporal
    \/ LearnTrigger
    \/ LearnUser

SpecLearn == Init /\ [][NextLearn]_vars

(* Deletion.  The engine has no operation that deletes a workflow and     *)
(* keeps no handle of the tasks it creates: deletion is taken to remove   *)
(* the record from the store, which is all the engine's state allows.     *)

Without(d, k) == [key \in DOMAIN d \ {k} |-> d[key]]

delete_workflow(workflow_id) ==
    /\ workflow_id \in DOMAIN active_workflows
    /\ active_workflows' = Without(active_workflows, workflow_id)
    /\ ret' = [op |-> "delete_workflow", workflow_id |-> workflow_id, raised |-> "none"]
    /\ UNCHANGED <<now, hashOf, simVars, mindVars, memory_network, pending, learnVars, trackerVars, created>>

Delete == \E workflow_id \in DOMAIN active_workflows : delete_workflow(workflow_id)

NextDelete ==
    \/ Tick
    \/ Create
    \/ Delete
    \/ LearnTemporal
    \/ LearnTrigger
    \/ LearnUser

SpecDelete == Init /\ [][NextDelete]_vars

(* The selection path next to the learning tasks: one workflow is      *)
(* created and collapsed while its tasks sleep, wake and write.         *)

NextBlocking ==
    \/ Tick
    \/ CreateFirst
    \/ Collapse
    \/ LearnTemporal
    \/ LearnTrigger
    \/ LearnUser

SpecBlocking == Init /\ [][NextBlocking]_vars

(* The event loop under fair scheduling: time passes and a task whose    *)
(* sleep is over is run.  The clock of the model stops at MaxTime, so    *)
(* workflows are created while the clock can still reach the end of the  *)
(* sleep of their tasks.                                                 *)

CreateInTime ==
    /\ now < MaxTime
    /\ Create

NextFair ==
    \/ Tick
    \/ CreateInTime
    \/ Collapse
    \/ LearnTemporal
    \/ LearnTrigger
    \/ LearnUser

SpecFair ==
    /\ Init /\ [][NextFair]_vars
    /\ WF_vars(Tick)
    /\ WF_vars(LearnTemporal) /\ WF_vars(LearnTrigger) /\ WF_vars(LearnUser)

(* The simulator next to one workflow under every operation: at most   *)
(* MaxSims environments are kept, built for the stored workflow in one  *)
(* second or another, and rebuilt within the same second.                *)

Simulate ==
    \E workflow_id \in DOMAIN active_workflows, scenario \in Scenarios, draw \in MockDraws :
        /\ \/ Cardinality(DOMAIN simulation_environments) < MaxSims
           \/ SimId(workflow_id, scenario, now) \in DOMAIN simulation_environments
        /\ create_simulation_environment(workflow_id, scenario, draw)

NextSim ==
    \/ Tick
    \/ CreateFirst
    \/ Collapse
    \/ Track
    \/ Simulate
    \/ LearnTemporal
    \/ LearnTrigger
    \/ LearnUser

SpecSim == Init /\ [][NextSim]_vars

(* The tracker with two workflow ids: up to MaxRun outcomes of each, *)
(* failed, default and perfect ones, in every interleaving.          *)

\* a second id the tracker is called with
OtherId == <<"qwf", 0, 1>>

PairResults == {ResultFailed, ResultDefault, ResultPerfect}

TrackPair ==
    \E workflow_id \in {UnknownId, OtherId}, execution_result \in PairResults :
        /\ Len(Get(evolution_history, workflow_id, <<>>)) < MaxRun
        /\ track_execution(workflow_id, execution_result)

NextPair == TrackPair

SpecPair == Init /\ [][NextPair]_vars

(* The consciousness interface: up to MaxConnections connections are    *)
(* initialized, each monitor makes up to MaxBeats iterations, and the    *)
(* clock is moved to the end of the sleep of an analysis task up to      *)
(* MaxPasses times.                                                      *)

DeviceTypes == {"brainwave"}

Initialize ==
    \E user_id \in Users, device_type \in DeviceTypes :
        /\ Cardinality(DOMAIN profiles) < MaxConnections
        /\ initialize_consciousness_connection(user_id, device_type)

Monitor ==
    \E task \in streams, draw \in ThoughtDraws \cup {NoThought} :
        _monitor_consciousness_stream(task, draw, 1)

Analyse == \E task \in streams : _precognitive_analysis(task)

\* time passes until the sleep of an analysis task is over
Sleep ==
    \E task \in streams :
        /\ task.kind = "analysis"
        /\ task.wake > now
        /\ now < MaxPasses * AnalysisInterval
        /\ now' = task.wake
        /\ UNCHANGED <<hashOf, simVars, mindVars, engineVars, pending, learnVars, trackerVars,
                       ret, created>>

NextMind ==
    \/ Initialize
    \/ Monitor
    \/ Analyse
    \/ Sleep

SpecMind == Init /\ [][NextMind]_vars

MutationResults ==
    {ResultDefault, ResultFailed, ResultPerfect, ResultWorst, ResultBorderline,
     ResultPoor, ResultFirst, ResultSecond, ResultThird}

\* up to MaxRun outcomes of one id, whose fitness falls on every side of 0.7 and 0.5
TrackMutation ==
    \E workflow_id \in CallerIds, execution_result \in MutationResults :
        /\ Len(Get(evolution_history, workflow_id, <<>>)) < MaxRun
        /\ track_execution(workflow_id, execution_result)

NextMutations == TrackMutation

SpecMutations == Init /\ [][NextMutations]_vars

---------------------------------------------------------------------------
(* Properties of the workflow lifecycle *)

Stored == DOMAIN active_workflows

StateOf(id) == active_workflows[id]["state"]

HasKey(id, key) == key \in DOMAIN active_workflows[id]

IsCollapsed(id) == StateOf(id) \in {WorkflowState.COLLAPSED, WorkflowState.EVOLVING}

\* C1: right after create_quantum_workflow returned an id the stored workflow
\* is in state SUPERPOSITION, and right after a collapse_workflow that did not
\* raise it is in state COLLAPSED.
C1_CreatedThenCollapsed ==
    /\ ret.op = "create_quantum_workflow" =>
            /\ ret.workflow_id \in Stored
            /\ StateOf(ret.workflow_id) = WorkflowState.SUPERPOSITION
    /\ (ret.op = "collapse_workflow" /\ ret.raised = "none") =>
            /\ ret.workflow_id \in Stored
            /\ StateOf(ret.workflow_id) = WorkflowState.COLLAPSED

C1_Witness ==
    /\ ret.op = "collapse_workflow" /\ ret.raised = "none"
    /\ StateOf(ret.workflow_id) = WorkflowState.COLLAPSED
    /\ active_workflows[ret.workflow_id]["collapse_timestamp"]
            > active_workflows[ret.workflow_id]["creation_timestamp"]

\* C2: right after a track_execution for a workflow that has been collapsed,
\* the workflow is in state EVOLVING.
C2_EvolvingAfterOutcome ==
    (/\ ret.op = "track_execution"
     /\ ret.workflow_id \in Stored
     /\ StateOf(ret.workflow_id) # WorkflowState.SUPERPOSITION)
        => StateOf(ret.workflow_id) = WorkflowState.EVOLVING

\* C3: a collapse_workflow on a workflow that is COLLAPSED or EVOLVING raises
\* InvalidLifecycleTransition and leaves the workflow record as it was.
C3_SecondCollapseRejected ==
    [][\A workflow_id \in CallerIds, execution_context \in ExecutionContexts :
        (/\ workflow_id \in Stored
         /\ IsCollapsed(workflow_id)
         /\ collapse_workflow(workflow_id, execution_context))
            => /\ ret'.raised = "InvalidLifecycleTransition"
               /\ active_workflows'[workflow_id] = active_workflows[workflow_id]]_vars

\* C4: once a workflow has a selected_variant and an execution_plan, no later
\* step changes them: at most one collapse of an id takes effect.
C4_SelectionNeverChanges ==
    [][\A id \in Stored :
        (HasKey(id, "selected_variant") /\ HasKey(id, "execution_plan"))
            => /\ id \in DOMAIN active_workflows'
               /\ "selected_variant" \in DOMAIN active_workflows'[id]
               /\ "execution_plan" \in DOMAIN active_workflows'[id]
               /\ active_workflows'[id]["selected_variant"] = active_workflows[id]["selected_variant"]
               /\ active_workflows'[id]["execution_plan"] = active_workflows[id]["execution_plan"]]_vars

\* C5: a track_execution for an id that was never collapsed (unknown, or still
\* in SUPERPOSITION) raises and leaves history, fitness scores and mutation
\* suggestions as they were.
C5_OutcomeBeforeCollapseRejected ==
    [][\A workflow_id \in CallerIds, execution_result \in ExecutionResults :
        (/\ workflow_id \notin Stored \/ ~IsCollapsed(workflow_id)
         /\ track_execution(workflow_id, execution_result))
            => /\ ret'.raised # "none"
               /\ UNCHANGED trackerVars]_vars

\* C6: a workflow that has a selected_variant has one that is a member of its
\* own possible_implementations.
C6_SelectedIsOwnVariant ==
    \A id \in Stored :
        HasKey(id, "selected_variant") =>
            \E i \in 1..Len(active_workflows[id]["possible_implementations"]) :
                active_workflows[id]["possible_implementations"][i]
                    = active_workflows[id]["selected_variant"]

C6_Witness ==
    \E id \in Stored :
        /\ HasKey(id, "selected_variant")
        /\ active_workflows[id]["selected_variant"]
                = active_workflows[id]["possible_implementations"][2]

\* C7: a stored workflow has a selected_variant and an execution_plan exactly
\* when it has been collapsed; a workflow in SUPERPOSITION has neither.
C7_PlanIffCollapsed ==
    \A id \in Stored :
        /\ (HasKey(id, "selected_variant") /\ HasKey(id, "execution_plan")) <=> IsCollapsed(id)
        /\ StateOf(id) = WorkflowState.SUPERPOSITION =>
                ~HasKey(id, "selected_variant") /\ ~HasKey(id, "execution_plan")

C7_Witness ==
    \E id, other \in Stored :
        /\ IsCollapsed(id) /\ HasKey(id, "execution_plan")
        /\ StateOf(other) = WorkflowState.SUPERPOSITION
        /\ created = 2

\* C8: no create_quantum_workflow returns an id that is already stored, so a
\* create never replaces a stored workflow record.
C8_IdsUnique ==
    [][\A description \in Descriptions, user_context \in UserContexts :
        create_quantum_workflow(description, user_context)
            => /\ ret'.workflow_id \notin Stored
               /\ \A id \in Stored : active_workflows'[id] = active_workflows[id]]_vars

\* C9: the lifecycle state of an id only moves forward: a workflow that is
\* COLLAPSED is never SUPERPOSITION again under the same id.
C9_StateOnlyForward ==
    [][\A id \in Stored :
        IsCollapsed(id)
            => /\ id \in DOMAIN active_workflows'
               /\ active_workflows'[id]["state"] # WorkflowState.SUPERPOSITION]_vars

\* C10: selection is a function of (variants, context, intent) alone: any two
\* collapsed workflows with the same variants, the same intent and the same
\* execution context have the same selected variant, whatever was in the
\* pattern and fitness stores when each was collapsed.
C10_SelectionDeterministic ==
    \A a, b \in Stored :
        (/\ HasKey(a, "selected_variant") /\ HasKey(b, "selected_variant")
         /\ active_workflows[a]["possible_implementations"]
                = active_workflows[b]["possible_implementations"]
         /\ active_workflows[a]["intent"] = active_workflows[b]["intent"]
         /\ active_workflows[a]["execution_context"] = active_workflows[b]["execution_context"])
            => active_workflows[a]["selected_variant"] = active_workflows[b]["selected_variant"]

C10_Witness ==
    \E a, b \in Stored :
        /\ a # b
        /\ HasKey(a, "selected_variant") /\ HasKey(b, "selected_variant")
        /\ active_workflows[a]["intent"] = active_workflows[b]["intent"]
        /\ active_workflows[a]["execution_context"] = active_workflows[b]["execution_context"]
        /\ active_workflows[a]["collapse_timestamp"] < active_workflows[b]["collapse_timestamp"]
        /\ \E id \in DOMAIN fitness_scores :
                evolution_history[id][1].timestamp < active_workflows[b]["collapse_timestamp"]
        /\ DOMAIN temporal_patterns # {}


---------------------------------------------------------------------------
(* Properties of the selection *)

Catalog(id) == active_workflows[id]["possible_implementations"]

\* the score of a variant of a collapsed workflow under the context it was collapsed with
ScoreOf(id, variant) ==
    _calculate_variant_score(variant,
                             _analyze_execution_context(active_workflows[id]["execution_context"]),
                             active_workflows[id]["intent"])

\* the place of a type name in the lexicographic order of the names
LexRank(type) ==
    CASE type = "custom" -> 0
      [] type = "learning_optimized" -> 1
      [] type = "reliability_optimized" -> 2
      [] type = "speed_optimized" -> 3
      [] type = "ux_optimized" -> 4

\* C11: when several variants share the score of the selected one, the
\* selected one has the lexicographically smallest type name among them
C11_TieGoesToSmallestName ==
    \A id \in Stored :
        IsCollapsed(id) =>
            \A i \in 1..Len(Catalog(id)) :
                ScoreOf(id, Catalog(id)[i]) = ScoreOf(id, active_workflows[id]["selected_variant"])
                    => LexRank(active_workflows[id]["selected_variant"].type)
                           <= LexRank(Catalog(id)[i].type)

Selected(id) == active_workflows[id]["selected_variant"]

WeightsOf(id) == _analyze_execution_context(active_workflows[id]["execution_context"])

GeneratedCatalog(id) == _generate_implementation_variants(active_workflows[id]["intent"])

\* the score as the claim states it, times 30000: speed * time_pressure
\* + reliability * (1 - error_tolerance) + resource_usage * resource_availability,
\* and 0.1 * 30000 more for a ux_optimized variant of a customer communication intent
StatedScore(variant, weights, intent) ==
    variant.trade_offs.speed * weights.time_pressure
    + variant.trade_offs.reliability * (100 - weights.error_tolerance)
    + variant.trade_offs.resource_usage * weights.resource_availability
    + (IF variant.type = "ux_optimized"
          /\ intent.primary_goal = "customer_communication_optimization"
       THEN 3000 ELSE 0)

\* C12: the score of every variant is the stated weighted sum, with the
\* bonus exactly for a ux_optimized variant of a customer communication
\* intent, and the selected variant has a maximal score
C12_ScoreAndMaximum ==
    \A id \in Stored :
        IsCollapsed(id) =>
            \A i \in 1..Len(Catalog(id)) :
                /\ ScoreOf(id, Catalog(id)[i])
                       = StatedScore(Catalog(id)[i], WeightsOf(id), active_workflows[id]["intent"])
                /\ StatedScore(Selected(id), WeightsOf(id), active_workflows[id]["intent"])
                       >= StatedScore(Catalog(id)[i], WeightsOf(id), active_workflows[id]["intent"])

\* a workflow without the bonus, collapsed under a context in which the four
\* scores differ: the inverted error tolerance decides for reliability_optimized
C12_Witness ==
    \E id \in Stored :
        /\ IsCollapsed(id)
        /\ Catalog(id) = GeneratedCatalog(id)
        /\ active_workflows[id]["intent"].primary_goal = "data_preservation_and_security"
        /\ active_workflows[id]["execution_context"] = CtxCareful
        /\ Selected(id).type = "reliability_optimized"
        /\ ScoreOf(id, Selected(id)) = 9800

\* C13: a customer communication workflow collapsed under the context
\* time pressure 0.8, resources 0.6, expertise 0.5, load 0.4, error
\* tolerance 0.1 selects the ux_optimized variant
C13_ScenarioSelectsUx ==
    \A id \in Stored :
        (/\ IsCollapsed(id)
         /\ Catalog(id) = GeneratedCatalog(id)
         /\ active_workflows[id]["intent"].primary_goal = "customer_communication_optimization"
         /\ active_workflows[id]["execution_context"] = CtxScenario)
            => Selected(id).type = "ux_optimized"

C13_Witness ==
    \E id \in Stored :
        /\ IsCollapsed(id)
        /\ Catalog(id) = GeneratedCatalog(id)
        /\ active_workflows[id]["description"] = DescCustomer
        /\ active_workflows[id]["execution_context"] = CtxScenario
        /\ WeightsOf(id) = [time_pressure |-> 80, resource_availability |-> 60, user_expertise |-> 50,
                             system_load |-> 40, error_tolerance |-> 10]
        /\ Selected(id).type = "ux_optimized"
        /\ ScoreOf(id, Selected(id)) = 22700

\* C14: a context with a value outside [0,1] is rejected: no workflow is
\* collapsed under it and no such value reaches the weight vector
C14_OutOfRangeContextRejected ==
    \A id \in Stored :
        HasKey(id, "execution_context") =>
            \A field \in DOMAIN WeightsOf(id) :
                /\ 0 <= WeightsOf(id)[field]
                /\ WeightsOf(id)[field] <= 100

\* C15: selecting from an empty list of variants fails with NoVariants
C15_EmptyCatalogRaisesNoVariants ==
    (/\ ret.op = "collapse_workflow"
     /\ ret.workflow_id \in Stored
     /\ Catalog(ret.workflow_id) = <<>>)
        => /\ ret.raised = "NoVariants"
           /\ ~IsCollapsed(ret.workflow_id)

---------------------------------------------------------------------------
(* Properties of the execution plan *)

PlanOf(id) == active_workflows[id]["execution_plan"]

HasTag(id, tag) == Contains(Selected(id).characteristics, tag)

\* C16: the plan is the five steps initialize, validate_inputs,
\* execute_core_logic, handle_results, notify_completion in this order;
\* a step is parallelised exactly when it is the execution step and the
\* variant has parallel_execution, carries validation layers exactly when it
\* is the validation step and the variant has comprehensive_validation, and
\* every step carries detailed logging and monitoring exactly when the
\* variant has extensive_logging
C16_PlanShape ==
    \A id \in Stored :
        IsCollapsed(id) =>
            /\ [i \in 1..Len(PlanOf(id)) |-> PlanOf(id)[i].step]
                   = <<"initialize", "validate_inputs", "execute_core_logic",
                       "handle_results", "notify_completion">>
            /\ \A i \in 1..Len(PlanOf(id)) :
                   /\ ("parallelization" \in DOMAIN PlanOf(id)[i])
                          <=> (PlanOf(id)[i].type = "execution" /\ HasTag(id, "parallel_execution"))
                   /\ ("thread_count" \in DOMAIN PlanOf(id)[i])
                          <=> ("parallelization" \in DOMAIN PlanOf(id)[i])
                   /\ ("validation_layers" \in DOMAIN PlanOf(id)[i])
                          <=> (PlanOf(id)[i].type = "validation" /\ HasTag(id, "comprehensive_validation"))
                   /\ ("validation_depth" \in DOMAIN PlanOf(id)[i])
                          <=> ("validation_layers" \in DOMAIN PlanOf(id)[i])
                   /\ ("logging_level" \in DOMAIN PlanOf(id)[i]) <=> HasTag(id, "extensive_logging")
                   /\ ("monitoring" \in DOMAIN PlanOf(id)[i]) <=> HasTag(id, "extensive_logging")

\* a plan of a variant with all three characteristics
C16_Witness ==
    \E id \in Stored :
        /\ IsCollapsed(id)
        /\ Selected(id).characteristics
               = <<"parallel_execution", "comprehensive_validation", "extensive_logging">>
        /\ PlanOf(id)[3].parallelization = "enabled"
        /\ Len(PlanOf(id)[2].validation_layers) = 4
        /\ PlanOf(id)[5].logging_level = "detailed"
        /\ "parallelization" \notin DOMAIN PlanOf(id)[2]

\* the elements of a list, whatever their order and number
TagSet(characteristics) == {characteristics[i] : i \in 1..Len(characteristics)}

\* C17: the stored plan is the plan of the selected variant computed
\* again, and it is the plan of every variant that carries the same
\* characteristics in another order or with repetitions
C17_PlanOrderIndependent ==
    \A id \in Stored :
        IsCollapsed(id) =>
            /\ PlanOf(id) = _generate_execution_plan(Selected(id), active_workflows[id]["intent"])
            /\ \A characteristics \in TagLists :
                   TagSet(characteristics) = TagSet(Selected(id).characteristics)
                       => _generate_execution_plan(DrawnVariant(characteristics),
                                                   active_workflows[id]["intent"]) = PlanOf(id)

\* a plan of a variant whose characteristics come out of order and twice
C17_Witness ==
    \E id \in Stored :
        /\ IsCollapsed(id)
        /\ Selected(id).characteristics
               = <<"extensive_logging", "parallel_execution", "parallel_execution">>
        /\ PlanOf(id) = _generate_execution_plan(
                             DrawnVariant(<<"parallel_execution", "extensive_logging">>),
                             active_workflows[id]["intent"])
        /\ PlanOf(id)[3].thread_count = 4

---------------------------------------------------------------------------
(* Properties of the fitness score *)

Tracked == DOMAIN fitness_scores

\* the entries of a history from the given position on
From(history, first) == [i \in 1..(Len(history) - first + 1) |-> history[first + i - 1]]

\* the ten most recent entries of a history
TenMostRecent(history) ==
    IF Len(history) > 10 THEN From(history, Len(history) - 9) ELSE history

\* num/den = 0.4 * avg(user_satisfaction) + 0.3 * avg(resource_efficiency)
\*           + 0.3 * avg(success) over the entries, in hundredths
IsStatedFitness(fitness, entries) ==
    fitness.num * 1000 * Len(entries)
        = fitness.den * (4 * Sum([i \in 1..Len(entries) |-> entries[i].user_satisfaction])
                         + 3 * Sum([i \in 1..Len(entries) |-> entries[i].resource_efficiency])
                         + 300 * Cardinality({i \in 1..Len(entries) : entries[i].success_rate = TRUE}))

\* C18: the stored fitness of an id is 0.4 * average satisfaction + 0.3 *
\* average efficiency + 0.3 * average success over the ten most recent
\* outcomes of the id
C18_FitnessOfLastTen ==
    \A id \in Tracked :
        IsStatedFitness(fitness_scores[id], TenMostRecent(evolution_history[id]))

\* eleven outcomes, the oldest a failure and the ten after it all alike:
\* the failure no longer counts
C18_Witness ==
    \E id \in Tracked :
        /\ Len(evolution_history[id]) = 11
        /\ evolution_history[id][1].success_rate = FALSE
        /\ evolution_history[id][1].user_satisfaction = 20
        /\ \A i \in 2..11 : evolution_history[id][i].success_rate = TRUE
        /\ fitness_scores[id] = [num |-> 83, den |-> 100]

\* C19: every stored fitness score lies between 0 and 1
C19_FitnessInUnitRange ==
    \A id \in Tracked :
        /\ 0 <= fitness_scores[id].num
        /\ fitness_scores[id].num <= fitness_scores[id].den

\* the values an outcome can be raised to, in hundredths
Levels == {0, 20, 30, 70, 80, 100, 120, 150}

\* the entries that are at least as high as the given one in satisfaction,
\* efficiency and success and equal to it in everything else
AtLeastAsGood(entry) ==
    {[entry EXCEPT !.user_satisfaction = satisfaction,
                   !.resource_efficiency = efficiency,
                   !.success_rate = success] :
        satisfaction \in {l \in Levels : l >= entry.user_satisfaction},
        efficiency \in {l \in Levels : l >= entry.resource_efficiency},
        success \in {b \in BOOLEAN : BoolToInt(b) >= BoolToInt(entry.success_rate)}}

\* a <= b for fractions of positive denominator
FractionLeq(a, b) == a.num * b.den <= b.num * a.den

\* C20: a history that differs from the recorded one in one outcome of the
\* window, which is at least as high in satisfaction, efficiency and
\* success, has a fitness at least as high as the stored one
C20_FitnessMonotone ==
    \A id \in Tracked :
        \A i \in 1..Len(evolution_history[id]) :
            \A better \in AtLeastAsGood(evolution_history[id][i]) :
                FractionLeq(fitness_scores[id],
                            _calculate_fitness_score([evolution_history[id] EXCEPT ![i] = better]))

\* a failed outcome among three whose replacement by a satisfying success
\* raises the fitness
C20_Witness ==
    \E id \in Tracked :
        /\ Len(evolution_history[id]) = 3
        /\ evolution_history[id][2].success_rate = FALSE
        /\ evolution_history[id][2].user_satisfaction = 20
        /\ \E better \in AtLeastAsGood(evolution_history[id][2]) :
               /\ better.success_rate = TRUE
               /\ better.user_satisfaction = 100
               /\ ~FractionLeq(_calculate_fitness_score([evolution_history[id] EXCEPT ![2] = better]),
                               fitness_scores[id])

---------------------------------------------------------------------------
(* Properties of the mutation suggestions and the history *)

\* C21: the suggestions stored for an id are empty when its fitness is at
\* least 0.7, the moderate list when it is at least 0.5 and below 0.7, the
\* moderate list followed by the severe list when it is below 0.5
C21_SuggestionsByThreshold ==
    \A id \in Tracked :
        /\ id \in DOMAIN mutation_strategies
        /\ mutation_strategies[id] =
               IF 10 * fitness_scores[id].num >= 7 * fitness_scores[id].den
                   THEN <<>>
               ELSE IF 10 * fitness_scores[id].num >= 5 * fitness_scores[id].den
                   THEN ModerateMutations
               ELSE ModerateMutations \o SevereMutations

\* a fitness of 0.45 with both lists
C21_Witness ==
    \E id \in Tracked :
        /\ fitness_scores[id] = [num |-> 9, den |-> 20]
        /\ Len(mutation_strategies[id]) = 9
        /\ mutation_strategies[id][1] = "optimize_execution_order"
        /\ mutation_strategies[id][9] = "integration_method_change"

\* the satisfaction, efficiency and success of the entries of a history
Measures(history) ==
    [i \in 1..Len(history) |->
        <<history[i].user_satisfaction, history[i].resource_efficiency, history[i].success_rate>>]

\* C22: after the three successful outcomes of satisfaction 0.9, 0.8, 0.85
\* and efficiency 0.7, 0.75, 0.8 the fitness is 0.865 and no mutation is suggested
C22_ScenarioFitness ==
    \A id \in Tracked :
        Measures(evolution_history[id]) = <<(<<90, 70, TRUE>>), (<<80, 75, TRUE>>), (<<85, 80, TRUE>>)>>
            => /\ fitness_scores[id] = [num |-> 173, den |-> 200]
               /\ mutation_strategies[id] = <<>>

C22_Witness ==
    \E id \in Tracked :
        /\ Len(evolution_history[id]) = 3
        /\ Measures(evolution_history[id])[1] = <<90, 70, TRUE>>
        /\ Measures(evolution_history[id])[2] = <<80, 75, TRUE>>
        /\ Measures(evolution_history[id])[3] = <<85, 80, TRUE>>
        /\ 1000 * fitness_scores[id].num = 865 * fitness_scores[id].den

\* the history of an id, empty before its first outcome
HistoryOf(id) == Get(evolution_history, id, <<>>)

\* C23: every step leaves every history as it is or longer by one entry at
\* its end, a step that records an outcome lengthens exactly one history by
\* exactly one entry, and no other step changes any history
C23_HistoryAppendOnly ==
    [][
        /\ \A id \in DOMAIN evolution_history :
              /\ id \in DOMAIN evolution_history'
              /\ Len(evolution_history'[id]) \in {Len(evolution_history[id]), Len(evolution_history[id]) + 1}
              /\ SubSeq(evolution_history'[id], 1, Len(evolution_history[id])) = evolution_history[id]
        /\ IF \E caller_id \in CallerIds, execution_result \in ExecutionResults :
                  track_execution(caller_id, execution_result)
           THEN /\ TotalOutcomes' = TotalOutcomes + 1
                /\ Len(evolution_history'[ret'.workflow_id]) = Len(HistoryOf(ret'.workflow_id)) + 1
           ELSE evolution_history' = evolution_history
    ]_vars

\* three outcomes under two ids, two of them different ones under the id of
\* a stored workflow which was collapsed
C23_Witness ==
    \E id \in Stored :
        /\ IsCollapsed(id)
        /\ Len(HistoryOf(id)) = 2
        /\ HistoryOf(id)[1].success_rate = FALSE
        /\ HistoryOf(id)[2].success_rate = TRUE
        /\ Len(HistoryOf(UnknownId)) = 1
        /\ \A task \in Range(pending) : task.workflow_id # id

---------------------------------------------------------------------------
(* Properties of the learning tasks *)

\* a step in which a learning task runs
LearnStep == LearnTemporal \/ LearnTrigger \/ LearnUser

\* the store a learning task of this kind writes
StoreOf(kind) ==
    CASE kind = "temporal" -> temporal_patterns
      [] kind = "trigger" -> pattern_cache
      [] kind = "user" -> prediction_models

\* the new store is the old one but for the entry of the id, which it has
WrittenAt(old, new, id) ==
    /\ DOMAIN new = DOMAIN old \cup {id}
    /\ \A other \in DOMAIN old \ {id} : new[other] = old[other]

\* C24: a learning task writes the entry of its workflow id in its own
\* store and changes nothing else: not the other two stores, not an entry
\* of another id, not the workflow records, not the histories, fitness
\* scores and suggestions
C24_LearningWritesOwnEntry ==
    [][LearnStep =>
        /\ \A task \in {Head(pending)} :
               /\ WrittenAt(StoreOf(task.kind), StoreOf(task.kind)', task.workflow_id)
               /\ \A kind \in {"temporal", "trigger", "user"} \ {task.kind} :
                      StoreOf(kind)' = StoreOf(kind)
        /\ active_workflows' = active_workflows
        /\ memory_network' = memory_network
        /\ evolution_history' = evolution_history
        /\ fitness_scores' = fitness_scores
        /\ mutation_strategies' = mutation_strategies
    ]_vars

\* two workflows and an outcome: every task of the first and the temporal
\* task of the second have written
C24_Witness ==
    \E id1 \in Stored, id2 \in Stored :
        /\ id1 # id2
        /\ DOMAIN temporal_patterns = {id1, id2}
        /\ DOMAIN pattern_cache = {id1}
        /\ DOMAIN prediction_models = {id1}
        /\ DOMAIN fitness_scores # {}
        /\ Len(pending) = 2

\* the score of a variant of a workflow under a context
ScoreUnder(workflow, context, variant) ==
    StatedScore(variant, _analyze_execution_context(context), workflow["intent"])

\* the first variant of a workflow that no variant outscores under a
\* context: a function of the workflow and the context and of nothing else
FirstBest(workflow, context) ==
    LET variants == workflow["possible_implementations"]
        best == CHOOSE i \in 1..Len(variants) :
                    /\ \A j \in 1..Len(variants) :
                           ScoreUnder(workflow, context, variants[j])
                               <= ScoreUnder(workflow, context, variants[i])
                    /\ \A j \in 1..(i - 1) :
                           ScoreUnder(workflow, context, variants[j])
                               < ScoreUnder(workflow, context, variants[i])
    IN variants[best]

\* C25: in every state, whichever learning tasks have written their
\* entries, what collapse_workflow selects and plans for a stored workflow
\* under a context is given by the workflow and the context alone
C25_LearningLeavesSelection ==
    \A id \in Stored, execution_context \in ExecutionContexts :
        /\ collapsed_workflow(id, execution_context).selected_variant
               = FirstBest(active_workflows[id], execution_context)
        /\ collapsed_workflow(id, execution_context).execution_plan
               = [i \in 1..Len(base_steps) |->
                     EnhanceStep(base_steps[i], FirstBest(active_workflows[id], execution_context))]

\* two workflows of one description collapsed under one context to the same
\* variant and plan, the one with all its pattern entries written and the
\* other with none
C25_Witness ==
    \E id1 \in Stored, id2 \in Stored :
        /\ id1 # id2
        /\ IsCollapsed(id1) /\ IsCollapsed(id2)
        /\ active_workflows[id1]["description"] = active_workflows[id2]["description"]
        /\ active_workflows[id1]["execution_context"] = active_workflows[id2]["execution_context"]
        /\ id1 \in DOMAIN temporal_patterns \cap DOMAIN pattern_cache \cap DOMAIN prediction_models
        /\ id2 \notin DOMAIN temporal_patterns \cup DOMAIN pattern_cache \cup DOMAIN prediction_models
        /\ Selected(id1) = Selected(id2)
        /\ PlanOf(id1) = PlanOf(id2)

\* C26: no learning task writes under the id of a workflow that was
\* deleted: the tasks that run are tasks of stored workflows
C26_NoWriteAfterDelete ==
    [][LearnStep => Head(pending).workflow_id \in Stored]_vars

\* a step in which the trigger task fails
TriggerFails == LearnTrigger /\ "primary_goal" \notin DOMAIN Head(pending).intent

\* C27: a trigger pass that fails is retried: after the failure a trigger
\* task of the workflow is outstanding again
C27_FailedPassRetried ==
    [][TriggerFails =>
        \E task \in Range(pending') :
            /\ task.kind = "trigger"
            /\ task.workflow_id = Head(pending).workflow_id
    ]_vars

\* no task of the id is outstanding
NoneOutstanding(id) == \A task \in Range(pending) : task.workflow_id # id

\* once the tasks of an id are through, the temporal and the user entry of
\* the id are written whether or not its trigger task failed, and a call of
\* collapse_workflow on a stored workflow or of track_execution has not failed
SiblingsWrote ==
    /\ \A id \in DOMAIN temporal_patterns :
           NoneOutstanding(id) => id \in DOMAIN prediction_models
    /\ (ret.op = "collapse_workflow" /\ ret.workflow_id \in Stored) => ret.raised = "none"
    /\ ret.op = "track_execution" => ret.raised = "none"

\* C28: a failure of the trigger task leaves the other tasks outstanding,
\* the workflow records and the tracker's stores as they are; the other
\* two tasks write their entries, and later calls of collapse_workflow and
\* track_execution succeed
C28_FailureIsolated ==
    [][
        /\ TriggerFails =>
               /\ pending' = Tail(pending)
               /\ active_workflows' = active_workflows
               /\ evolution_history' = evolution_history
               /\ fitness_scores' = fitness_scores
               /\ temporal_patterns' = temporal_patterns
               /\ prediction_models' = prediction_models
        /\ SiblingsWrote'
    ]_vars

\* the trigger task of the unknown id has failed, its two siblings have
\* written, and the stored workflow is collapsed and has an outcome
C28_Witness ==
    /\ pending = <<>>
    /\ UnknownId \in DOMAIN temporal_patterns \cap DOMAIN prediction_models
    /\ UnknownId \notin DOMAIN pattern_cache
    /\ \E id \in Stored :
           /\ IsCollapsed(id)
           /\ id \in DOMAIN fitness_scores
           /\ id \in DOMAIN pattern_cache
    /\ ret.raised = "none"

\* the learning tasks of the id that have not run yet, in the order of the queue
OutstandingOf(id) == SelectSeq(pending, LAMBDA task : task.workflow_id = id)

\* the kinds of learning tasks of the id that have written their entry
FinishedOf(id) == {kind \in {"temporal", "trigger", "user"} : id \in DOMAIN StoreOf(kind)}

\* C29: learning never blocks the selection path: in every state, whether
\* none, some or all of the learning tasks of a stored workflow have run,
\* collapse_workflow of it can be taken and returns without an error; and
\* when create_quantum_workflow has returned and the clock has not moved
\* since, the call has waited for none of the tasks it started: the three
\* are the last of the queue, asleep until later than now, and no store
\* has an entry of the new id
C29_LearningNeverBlocks ==
    /\ \A id \in Stored, execution_context \in ExecutionContexts :
           ENABLED (collapse_workflow(id, execution_context) /\ ret'.raised = "none")
    /\ \A id \in Stored :
           (/\ ret = [op |-> "create_quantum_workflow", workflow_id |-> id, raised |-> "none"]
            /\ active_workflows[id]["creation_timestamp"] = now) =>
               /\ Len(pending) >= 3
               /\ SubSeq(pending, Len(pending) - 2, Len(pending))
                      = start_predictive_learning(id, active_workflows[id])
               /\ \A task \in Range(OutstandingOf(id)) : task.wake > now
               /\ FinishedOf(id) = {}

\* the workflow was collapsed without an error at time 1, when its tasks
\* were awake, and one of them has written its entry while two have not
\* run: a state with some of the learning done, in which collapse returned
C29_Witness ==
    \E id \in Stored :
        /\ IsCollapsed(id)
        /\ active_workflows[id]["collapse_timestamp"] = 1
        /\ ret = [op |-> "collapse_workflow", workflow_id |-> id, raised |-> "none"]
        /\ FinishedOf(id) = {"temporal"}
        /\ Len(OutstandingOf(id)) = 2

\* the ids create_quantum_workflow can make within the bounds
AllIds == {<<"qwf", time, hash % IdModulus>> : time \in 0..MaxTime, hash \in HashValues}

LearningKinds == {"temporal", "trigger", "user"}

\* C30: under fair scheduling, with no task failing, the three entries
\* (temporal, trigger, user) of every created workflow id are eventually
\* present, and once the three are present they stay present; until then
\* the stores may hold none or some of them
C30_EntriesEventuallyStay ==
    /\ \A id \in AllIds : (id \in Stored) ~> (FinishedOf(id) = LearningKinds)
    /\ [][\A id \in AllIds :
              FinishedOf(id) = LearningKinds => (FinishedOf(id) = LearningKinds)']_vars

\* two workflows were created: the stores hold the three entries of one
\* and, with a task of it still outstanding, some of the other
C30_Witness ==
    \E first \in Stored, second \in Stored :
        /\ FinishedOf(first) = LearningKinds
        /\ OutstandingOf(first) = <<>>
        /\ FinishedOf(second) = {"temporal", "trigger"}
        /\ Len(OutstandingOf(second)) = 1

---------------------------------------------------------------------------
(* Properties of the simulator *)

\* a step in which create_simulation_environment returns
SimulateStep == ret'.op = "create_simulation_environment" /\ <<ret, simulation_environments>>' # <<ret, simulation_environments>>

\* C31: building a simulation environment stores the environment under
\* the sim_id it returns and touches nothing else: the workflow store and
\* with it every lifecycle state, the memory, the outstanding learning
\* tasks, the pattern stores, the histories, fitness scores and
\* suggestions and the clock are as they were
C31_BuildOnlyStoresEnvironment ==
    [][SimulateStep =>
        /\ ret'.value \in DOMAIN simulation_environments'
        /\ simulation_environments'[ret'.value]["workflow_id"] = ret'.workflow_id
        /\ DOMAIN simulation_environments' = DOMAIN simulation_environments \cup {ret'.value}
        /\ active_workflows' = active_workflows
        /\ memory_network' = memory_network
        /\ pending' = pending
        /\ temporal_patterns' = temporal_patterns
        /\ pattern_cache' = pattern_cache
        /\ prediction_models' = prediction_models
        /\ evolution_history' = evolution_history
        /\ fitness_scores' = fitness_scores
        /\ mutation_strategies' = mutation_strategies
        /\ now' = now
    ]_vars

\* an environment was built for a collapsed workflow with an outcome
\* recorded and a pattern learned
C31_Witness ==
    /\ ret.op = "create_simulation_environment"
    /\ ret.value \in DOMAIN simulation_environments
    /\ ret.workflow_id \in Stored
    /\ StateOf(ret.workflow_id) = WorkflowState.COLLAPSED
    /\ ret.workflow_id \in DOMAIN temporal_patterns
    /\ DOMAIN fitness_scores # {}

\* C32: an environment stored under its sim_id is never changed or
\* replaced, and a build returns a sim_id no earlier environment has
C32_EnvironmentNeverReplaced ==
    [][
        /\ \A sim_id \in DOMAIN simulation_environments :
               /\ sim_id \in DOMAIN simulation_environments'
               /\ simulation_environments'[sim_id] = simulation_environments[sim_id]
        /\ SimulateStep => ret'.value \notin DOMAIN simulation_environments
    ]_vars

---------------------------------------------------------------------------
(* Properties of the catalog and of the record collapse leaves *)

VariantsOf(workflows, id) == workflows[id]["possible_implementations"]

\* C33: after every step, the variant list of every stored workflow is the
\* four archetypes in the order speed, reliability, learning, user
\* experience, every trade-off value lies in [0,1], the lists of any two
\* workflows (whatever their intents) are the same, and the list of a
\* workflow that was stored before the step is the list it had: no call,
\* collapse included, changes it
C33_CatalogFixed ==
    [][\A id \in DOMAIN active_workflows' :
          /\ [i \in 1..Len(VariantsOf(active_workflows', id)) |->
                 VariantsOf(active_workflows', id)[i].type]
                 = <<"speed_optimized", "reliability_optimized", "learning_optimized", "ux_optimized">>
          /\ \A i \in 1..Len(VariantsOf(active_workflows', id)) :
                 \A key \in DOMAIN VariantsOf(active_workflows', id)[i].trade_offs :
                     VariantsOf(active_workflows', id)[i].trade_offs[key] \in 0..100
          /\ \A other \in DOMAIN active_workflows' :
                 VariantsOf(active_workflows', other) = VariantsOf(active_workflows', id)
          /\ id \in DOMAIN active_workflows =>
                 VariantsOf(active_workflows', id) = VariantsOf(active_workflows, id)
    ]_vars

\* two workflows of different goals are stored, one of them collapsed
C33_Witness ==
    \E first \in Stored, second \in Stored :
        /\ active_workflows[first]["intent"]["primary_goal"]
               # active_workflows[second]["intent"]["primary_goal"]
        /\ IsCollapsed(first)
        /\ ~IsCollapsed(second)
        /\ Len(VariantsOf(active_workflows, first)) = 4

\* a step in which collapse_workflow was called with an id the store does not have
CollapseUnknownStep ==
    /\ ret' # ret
    /\ ret'.op = "collapse_workflow"
    /\ ret'.workflow_id \notin DOMAIN active_workflows

\* C34: collapse_workflow of an id that is not in the store raises an
\* error whose message names the id, stores no record under the id and
\* leaves the workflow store and every other store as they were
C34_UnknownIdRejected ==
    [][CollapseUnknownStep =>
        /\ ret'.raised = "ValueError"
        /\ ret'.workflow_id \in Range(ret'.message.args)
        /\ active_workflows' = active_workflows
        /\ UNCHANGED <<memory_network, pending, learnVars, trackerVars, simVars>>
    ]_vars

\* the unknown id was refused while a collapsed workflow is stored
C34_Witness ==
    /\ ret.op = "collapse_workflow"
    /\ ret.raised = "ValueError"
    /\ ret.workflow_id = UnknownId
    /\ UnknownId \notin Stored
    /\ \E id \in Stored : IsCollapsed(id)

CollapseFields == {"selected_variant", "execution_plan", "collapse_timestamp"}

FieldsSet(id) == {field \in CollapseFields : HasKey(id, field)}

\* the record is collapsed as a whole or not at all
AllOrNothing(id) ==
    \/ StateOf(id) = WorkflowState.COLLAPSED /\ FieldsSet(id) = CollapseFields
    \/ StateOf(id) # WorkflowState.COLLAPSED /\ FieldsSet(id) = {}

\* a step in which collapse_workflow of a stored id raised
CollapseFailedStep ==
    /\ ret' # ret
    /\ ret'.op = "collapse_workflow"
    /\ ret'.workflow_id \in DOMAIN active_workflows
    /\ ret'.raised # "none"

\* C35: collapse is all-or-nothing: after every step, of every stored
\* workflow, the state COLLAPSED, the selected variant, the plan and the
\* collapse timestamp are all set or none is, and a collapse that fails in
\* the selection raises to the caller without a second attempt and leaves
\* the record as it was
C35_CollapseAllOrNothing ==
    [][
        /\ \A id \in DOMAIN active_workflows' : AllOrNothing(id)'
        /\ CollapseFailedStep => active_workflows' = active_workflows
    ]_vars

\* the selection failed on a stored workflow, which is as it was created
C35_Witness ==
    /\ ret.op = "collapse_workflow"
    /\ ret.raised = "IndexError"
    /\ ret.workflow_id \in Stored
    /\ StateOf(ret.workflow_id) = WorkflowState.SUPERPOSITION
    /\ FieldsSet(ret.workflow_id) = {}

---------------------------------------------------------------------------
(* Properties of the suggestions *)

\* the fitness of the id is below tenths/10
FitnessBelow(scores, id, tenths) == 10 * scores[id].num < tenths * scores[id].den

NoRepeats(list) == \A i, j \in 1..Len(list) : list[i] = list[j] => i = j

\* C36: the suggestions stored for an id are those of its current fitness
\* and of nothing earlier: none when the fitness is at least 0.7 (also when
\* it was below 0.5 before), the five moderate ones from 0.5 up to 0.7, all
\* nine below 0.5, none of them twice; and recording an outcome for one id
\* leaves the history, the fitness and the suggestions of every other id
\* as they were
C36_SuggestionsReplaced ==
    [][
        /\ \A id \in DOMAIN mutation_strategies' :
               /\ NoRepeats(mutation_strategies'[id])
               /\ Len(mutation_strategies'[id]) =
                      IF FitnessBelow(fitness_scores', id, 5) THEN 9
                      ELSE IF FitnessBelow(fitness_scores', id, 7) THEN 5
                      ELSE 0
        /\ \A other \in DOMAIN evolution_history \ {ret'.workflow_id} :
               /\ other \in DOMAIN evolution_history'
               /\ evolution_history'[other] = evolution_history[other]
               /\ fitness_scores'[other] = fitness_scores[other]
               /\ mutation_strategies'[other] = mutation_strategies[other]
    ]_vars

\* the fitness of one id was below 0.5 after its first outcome and is at
\* least 0.7 after its third: it has no suggestions, while the other id,
\* whose fitness is below 0.5, has nine
C36_Witness ==
    /\ UnknownId \in DOMAIN evolution_history /\ OtherId \in DOMAIN evolution_history
    /\ Len(evolution_history[UnknownId]) = 3
    /\ FitnessBelow([only |-> _calculate_fitness_score(SubSeq(evolution_history[UnknownId], 1, 1))],
                    "only", 5)
    /\ ~FitnessBelow(fitness_scores, UnknownId, 7)
    /\ mutation_strategies[UnknownId] = <<>>
    /\ FitnessBelow(fitness_scores, OtherId, 5)
    /\ Len(mutation_strategies[OtherId]) = 9

---------------------------------------------------------------------------
(* Properties of the criticality score *)

LevelOf(workflows, id) == workflows[id]["consciousness_level"]

\* C37: the consciousness_level of every stored workflow lies in
\* [0.5, 1.0] and, once the workflow is stored, the level under its id
\* is never another one: not after collapse, not after any later call
C37_LevelFixed ==
    [][\A id \in DOMAIN active_workflows' :
          /\ LevelOf(active_workflows', id) \in 50..100
          /\ id \in DOMAIN active_workflows =>
                 LevelOf(active_workflows', id) = LevelOf(active_workflows, id)
    ]_vars

---------------------------------------------------------------------------
(* Properties of the consciousness interface *)

\* the feedbacks a step sends for one connection, in the order sent
SentFor(connection_id) ==
    LET sent == SelectSeq(SubSeq(feedback_log', Len(feedback_log) + 1, Len(feedback_log')),
                          LAMBDA message : message.connection_id = connection_id)
    IN [k \in 1..Len(sent) |-> sent[k].feedback]

\* the feedbacks stored in a profile, in the order stored
QueueOf(objects, object) ==
    LET queue == Get(objects[object], "feedback_queue", <<>>)
    IN [k \in 1..Len(queue) |-> queue[k].feedback]

\* C38: every feedback message sent for an active connection is appended,
\* in the order sent, to the feedback_queue of the profile of the user who
\* owns the connection.
C38_FeedbackStored ==
    [][
        \A connection_id \in DOMAIN active_connections :
            LET owner == profiles[active_connections[connection_id]].user_id
                object == consciousness_profiles[owner]
            IN QueueOf(profiles', object) = QueueOf(profiles, object) \o SentFor(connection_id)
    ]_vars

\* a step that is a pass of an analysis task
AnalysisStep == \E task \in streams : task.kind = "analysis" /\ task \notin streams'

\* the patterns stored for a connection in the last time_window seconds;
\* the second a pattern was stored in is the one in its pattern_id
StoredWithin(connection_id, time_window) ==
    SelectSeq(Get(thought_patterns, connection_id, <<>>),
              LAMBDA pattern : now - pattern.pattern_id[2] < time_window)

\* C39: a pass of the precognitive analysis fetches every thought pattern
\* stored for its connection in the last 300 seconds, and evaluates them
\* for insights when they are at least 3.
C39_RecentPatternsEvaluated ==
    [][
        AnalysisStep =>
            LET within == StoredWithin(analysis_pass'.connection_id, PatternWindow)
            IN /\ analysis_pass'.recent = within
               /\ Len(within) >= MinPatterns => analysis_pass'.evaluated
    ]_vars

====
